---- MODULE Spec2Model ----
(***************************************************************************)
(* Orthogonal arrays (sage/combinat/designs/orthogonal_arrays.py): the     *)
(* existence cache, the resolver orthogonal_array, the transversal design  *)
(* layer and incomplete_orthogonal_array, as a state machine over the      *)
(* module-level dictionary _OA_cache.                                      *)
(***************************************************************************)
EXTENDS Integers, Sequences, FiniteSets, TLC

(* ------------------------------ bounds --------------------------------- *)
\* sizes n of the alphabet range over 0..MaxN
MaxN == 4
\* strengths t range over 1..MaxT
MaxT == 4
\* at most MaxHoles holes in a request to incomplete_orthogonal_array
MaxHoles == 4

Sizes == 0 .. MaxN
Strengths == 1 .. MaxT
\* column counts of the requests: up to n+t for the largest n and t
Columns == 0 .. (MaxN + MaxT)

(* --------------------------- Python values ----------------------------- *)
\* Python 2 None, ordered below every integer (None < k for every int k)
None == -1
\* sage.rings.infinity.Infinity, above every column count of the model
Infinity == 99

\* the three answers of an existence query, and "None" for no answer
Troolean == {"True", "Unknown", "False"}

VARIABLES
    OA_cache,                    \* _OA_cache: n -> <<max_true, min_unknown, max_unknown, min_false>>, <<>> when n is no key
    projective_plane,            \* projective_plane(n, existence=True), n >= 2
    OA_constructions,            \* n -> OA_constructions[n][0], 0 when n is no key
    MOLS_constructions,          \* n -> MOLS_constructions[n][0], 0 when n is no key
    find_recursive_construction, \* the pairs <<k,n>> for which a recursive construction is found
    defect,                      \* the defective column of the arrays the collaborators
                                 \* deliver: 0 for none, -1 for a missing row
    last,                        \* the call in progress and its outcome
    built,                       \* the rows of the array the call returns, <<>> otherwise
    callers                      \* the concurrent callers of _OA_cache_set: position,
                                 \* arguments and the record read; <<>> when there are none

vars == <<OA_cache, projective_plane, OA_constructions, MOLS_constructions,
          find_recursive_construction, defect, last, built, callers>>

collaborators == <<projective_plane, OA_constructions, MOLS_constructions,
                   find_recursive_construction, defect>>

(* --------------------------- existence cache --------------------------- *)
NoRecord == <<>>

\* _OA_cache.get(n,(0,None,None,n+2))
CacheRecord(c, n) == IF c[n] = NoRecord THEN <<0, None, None, n + 2>> ELSE c[n]

\* variant of _OA_cache_set that stores nothing
OA_cache_set_forgets(c, k, n, truth_value) == c

\* variant of _OA_cache_set whose True branch overwrites max_true with k
OA_cache_set_overwrites(c, k, n, truth_value) ==
    LET r == CacheRecord(c, n)
        new == IF truth_value = "True"
               THEN <<k, r[2], r[3], r[4]>>
               ELSE IF truth_value = "Unknown"
               THEN <<r[1],
                      IF r[2] = None \/ k < r[2] THEN k ELSE r[2],
                      IF r[3] = None \/ k > r[3] THEN k ELSE r[3],
                      r[4]>>
               ELSE <<r[1], r[2], r[3], IF k < r[4] THEN k ELSE r[4]>>
    IN [c EXCEPT ![n] = new]

\* the record that _OA_cache_set(k,n,truth_value) writes after it has read the record r
OA_cache_updated(r, k, truth_value) ==
    LET max_true == r[1]
        min_unknown == r[2]
        max_unknown == r[3]
        min_false == r[4]
    IN IF truth_value = "True"
       THEN <<IF k > max_true THEN k ELSE max_true, min_unknown, max_unknown, min_false>>
       ELSE IF truth_value = "Unknown"
       THEN <<max_true,
              IF min_unknown = None \/ k < min_unknown THEN k ELSE min_unknown,
              IF max_unknown = None \/ k > max_unknown THEN k ELSE max_unknown,
              min_false>>
       ELSE <<max_true, min_unknown, max_unknown,
              IF k < min_false THEN k ELSE min_false>>

\* _OA_cache_set(k,n,truth_value): the dictionary after the call
OA_cache_set(c, k, n, truth_value) ==
    [c EXCEPT ![n] = OA_cache_updated(CacheRecord(c, n), k, truth_value)]

\* variant of _OA_cache_get that tests the unknown band before max_true
OA_cache_get_band_first(c, k, n) ==
    IF c[n] = NoRecord THEN "None"
    ELSE IF c[n][2] # None /\ (k >= c[n][2] /\ k <= c[n][3]) THEN "Unknown"
    ELSE IF k <= c[n][1] THEN "True"
    ELSE IF k >= c[n][4] THEN "False"
    ELSE "None"

\* _OA_cache_get(k,n): "True", "Unknown", "False", or "None"
OA_cache_get(c, k, n) ==
    IF c[n] = NoRecord THEN "None"
    ELSE LET max_true == c[n][1]
             min_unknown == c[n][2]
             max_unknown == c[n][3]
             min_false == c[n][4]
         IN IF k <= max_true THEN "True"
            ELSE IF min_unknown # None /\ (k >= min_unknown /\ k <= max_unknown) THEN "Unknown"
            ELSE IF k >= min_false THEN "False"
            ELSE "None"

\* variant of _OA_cache_construction_available that answers Unknown above max_true
OA_cache_construction_available_unknown(c, k, n) ==
    IF c[n] # NoRecord /\ k <= c[n][1] THEN "True" ELSE "Unknown"

\* _OA_cache_construction_available(k,n)
OA_cache_construction_available(c, k, n) ==
    IF c[n] # NoRecord
    THEN LET max_true == c[n][1]
             min_unknown == c[n][2]
         IN IF k <= max_true THEN "True"
            ELSE IF min_unknown # None /\ k >= min_unknown THEN "False"
            ELSE "Unknown"
    ELSE "Unknown"

(* ------------------------------ outcomes ------------------------------- *)
\* an existence answer
Answer(v) == [kind |-> "troolean", val |-> v, num |-> None]
\* a raised exception
Raise(e) == [kind |-> "error", val |-> e, num |-> None]
\* a returned design, built by the named step of the chain
Design(via) == [kind |-> "design", val |-> via, num |-> None]
\* the integer returned for k=None and existence=True (None when k was never bound)
Largest(k) == [kind |-> "largest", val |-> "k", num |-> k]

Result(o, c) == [out |-> o, cache |-> c]


(* ------------------------------ resolver ------------------------------- *)
\* bool(x) of a troolean: Unknown and False are falsy
Truthy(v) == v = "True"

\* projective_plane(n, check=False) in build mode: the plane when one exists,
\* EmptySetError when projective_plane(n, existence=True) is False
projective_plane_build(n) ==
    IF projective_plane[n] = "True" THEN Design("plane") ELSE Raise("EmptySetError")

\* variant of the k<t test that lets k = t-1 through
UndefinedParameters_short(k, t) == k < t - 1

\* "if k < t: raise ValueError"
UndefinedParameters(k, t) == k < t

\* variant of the cache lookup that answers for every strength
AnsweredByCache_any_strength(c, k, n, t, existence) ==
    existence /\ OA_cache_get(c, k, n) # "None"

\* "if existence and _OA_cache_get(k,n) is not None and t == 2"
AnsweredByCache(c, k, n, t, existence) ==
    existence /\ OA_cache_get(c, k, n) # "None" /\ t = 2

\* variant of the k>=n+t test that lets k = n+t through
TooManyColumns_strict(k, n, t) == k > n + t

\* "elif k >= n+t": no orthogonal array exists
TooManyColumns(k, n, t) == k >= n + t

\* "elif k <= t": the trivial array of all tuples
AllTuples(k, t) == k <= t

\* orthogonal_array(k,n,t,existence=existence) for an integer k, from "if k < t" on.
\* The arrays of the collaborators are taken to pass the final check.
orthogonal_array_k(c, k, n, t, existence) ==
    IF UndefinedParameters(k, t) THEN Result(Raise("ValueError"), c)
    ELSE IF AnsweredByCache(c, k, n, t, existence)
    THEN Result(Answer(OA_cache_get(c, k, n)), c)
    ELSE LET may_be_available == OA_cache_construction_available(c, k, n) # "False"
    IN  IF n <= 1
        THEN Result(IF existence THEN Answer("True") ELSE Design("n<=1"), c)
        ELSE IF TooManyColumns(k, n, t)
        THEN Result(IF existence THEN Answer("False") ELSE Raise("EmptySetError"), c)
        ELSE IF AllTuples(k, t)
        THEN Result(IF existence THEN Answer("True") ELSE Design("k<=t"), c)
        ELSE IF t # 2
        THEN Result(IF existence THEN Answer("Unknown") ELSE Raise("NotImplementedError"), c)
        ELSE IF k <= 3
        THEN Result(IF existence THEN Answer("True") ELSE Design("k<=3"), c)
        ELSE IF Truthy(projective_plane[n]) \/ (k = n + 1 /\ projective_plane[n] = "False")
        THEN LET c1 == OA_cache_set(c, n + 1, n, projective_plane[n])
             IN IF k = n + 1
                THEN Result(IF existence THEN Answer(projective_plane[n])
                            ELSE projective_plane_build(n), c1)
                ELSE Result(IF existence THEN Answer("True")
                            ELSE projective_plane_build(n), c1)
        ELSE IF may_be_available /\ OA_constructions[n] # 0 /\ k <= OA_constructions[n]
        THEN Result(IF existence THEN Answer("True") ELSE Design("OA_constructions"),
                    OA_cache_set(c, OA_constructions[n], n, "True"))
        ELSE IF may_be_available /\ k <= 6 /\ n = 12
        THEN Result(IF existence THEN Answer("True") ELSE Design("TD_6_12"),
                    OA_cache_set(c, 6, 12, "True"))
        ELSE IF may_be_available /\ MOLS_constructions[n] # 0 /\ k - 2 <= MOLS_constructions[n]
        THEN Result(IF existence THEN Answer("True") ELSE Design("MOLS_constructions"),
                    OA_cache_set(c, MOLS_constructions[n] + 2, n, "True"))
        ELSE IF may_be_available /\ <<k, n>> \in find_recursive_construction
        THEN Result(IF existence THEN Answer("True") ELSE Design("recursive"),
                    OA_cache_set(c, k, n, "True"))
        ELSE Result(IF existence THEN Answer("Unknown") ELSE Raise("NotImplementedError"),
                    OA_cache_set(c, k, n, "Unknown"))

\* "for k in range(t-1,n+2): if not orthogonal_array(k+1,n,t=t,existence=True): break",
\* entered at k; first is t-1. The value of k after the loop (None when the range is empty).
RECURSIVE LargestLoop(_, _, _, _, _)
\* the loop after "orthogonal_array(k+1,n,t=t,existence=True)" returned r
LargestLoopAsked(r, k, n, t, first) ==
    IF ~ (r.out.kind = "troolean" /\ Truthy(r.out.val))
    THEN [k |-> k, cache |-> r.cache]
    ELSE LargestLoop(r.cache, k + 1, n, t, first)

LargestLoop(c, k, n, t, first) ==
    IF k >= n + 2
    THEN [k |-> IF k = first THEN None ELSE k - 1, cache |-> c]
    ELSE LargestLoopAsked(orthogonal_array_k(c, k + 1, n, t, TRUE), k, n, t, first)

\* orthogonal_array from "if existence: return k" on, with found = [k, cache] the
\* value of k and the dictionary after the search for the largest k
orthogonal_array_found(found, n, t, existence) ==
    IF existence THEN Result(Largest(found.k), found.cache)
    ELSE orthogonal_array_k(found.cache, found.k, n, t, existence)

\* orthogonal_array(k,n,t,existence=existence); k = None asks for the largest k
orthogonal_array(c, k, n, t, existence) ==
    IF k # None THEN orthogonal_array_k(c, k, n, t, existence)
    ELSE IF n = 0 \/ n = 1
    THEN Result(IF existence THEN Largest(Infinity) ELSE Raise("ValueError"), c)
    ELSE IF t = 2 /\ Truthy(projective_plane[n])
    THEN orthogonal_array_found([k |-> n + 1, cache |-> c], n, t, existence)
    ELSE orthogonal_array_found(LargestLoop(c, t - 1, n, t, t - 1), n, t, existence)

(* ----------------------- transversal design layer ---------------------- *)
\* transversal_design after "OA = orthogonal_array(k,n, check = False)" returned r3
transversal_design_built(r3) ==
    IF r3.out.kind = "error" THEN r3 ELSE Result(Design(r3.out.val), r3.cache)

\* transversal_design after "if orthogonal_array(k, n, existence=True):" got r2
transversal_design_forward(r2, k, n, existence) ==
    IF Truthy(r2.out.val)
    THEN IF existence THEN Result(Answer("True"), r2.cache)
         ELSE transversal_design_built(orthogonal_array_k(r2.cache, k, n, 2, FALSE))
    ELSE Result(IF existence THEN Answer("False") ELSE Raise("EmptySetError"), r2.cache)

\* transversal_design after "elif orthogonal_array(k, n, existence=True) is not Unknown:" got r1
transversal_design_asked(r1, k, n, existence) ==
    IF r1.out.kind = "error" THEN r1
    ELSE IF r1.out.val # "Unknown"
    THEN transversal_design_forward(orthogonal_array_k(r1.cache, k, n, 2, TRUE), k, n, existence)
    ELSE Result(IF existence THEN Answer("Unknown") ELSE Raise("NotImplementedError"), r1.cache)

\* transversal_design(k,n,existence=existence) for an integer k, from
\* "if existence and _OA_cache_get(k,n) is not None" on
transversal_design_k(c, k, n, existence) ==
    IF existence /\ OA_cache_get(c, k, n) # "None"
    THEN Result(Answer(OA_cache_get(c, k, n)), c)
    ELSE IF n = 1
    THEN Result(IF existence THEN Answer("True") ELSE Design("n=1"), c)
    ELSE IF k >= n + 2
    THEN Result(IF existence THEN Answer("False") ELSE Raise("EmptySetError"), c)
    ELSE IF n = 12 /\ k <= 6
    THEN Result(IF existence THEN Answer("True") ELSE Design("TD_6_12"),
                OA_cache_set(c, 6, 12, "True"))
    ELSE transversal_design_asked(orthogonal_array_k(c, k, n, 2, TRUE), k, n, existence)

\* transversal_design for k = None after "k = orthogonal_array(None,n,existence=True)" got r
transversal_design_largest(r, n, existence) ==
    IF existence THEN r ELSE transversal_design_k(r.cache, r.out.num, n, existence)

\* transversal_design(k,n,existence=existence); k = None asks for the largest k
transversal_design(c, k, n, existence) ==
    IF k # None THEN transversal_design_k(c, k, n, existence)
    ELSE IF n = 0 \/ n = 1
    THEN Result(IF existence THEN Largest(Infinity) ELSE Raise("ValueError"), c)
    ELSE transversal_design_largest(orthogonal_array(c, None, n, 2, TRUE), n, existence)

(* --------------------- incomplete orthogonal arrays -------------------- *)
RECURSIVE SumSeq(_)
SumSeq(s) == IF s = <<>> THEN 0 ELSE Head(s) + SumSeq(Tail(s))

\* a design built from the array r holds, or the failure r holds
DesignFrom(r, via) == IF r.out.kind = "error" THEN r ELSE Result(Design(via), r.cache)

\* variant of the branch that takes an array without x disjoint blocks for a proof
\* that the incomplete array does not exist
incomplete_orthogonal_array_disjoint_false(r4, existence, feasible) ==
    IF r4.out.kind = "error" THEN r4
    ELSE IF ~ feasible
    THEN Result(IF existence THEN Answer("False") ELSE Raise("EmptySetError"), r4.cache)
    ELSE Result(IF existence THEN Answer("True") ELSE Design("disjoint blocks"), r4.cache)

\* incomplete_orthogonal_array after "OA = orthogonal_array(k,n)" of the branch
\* "elif orthogonal_array(k,n,existence=True):" returned r4
incomplete_orthogonal_array_disjoint(r4, existence, feasible) ==
    IF r4.out.kind = "error" THEN r4
    ELSE IF ~ feasible
    THEN Result(IF existence THEN Answer("Unknown") ELSE Raise("NotImplementedError"), r4.cache)
    ELSE Result(IF existence THEN Answer("True") ELSE Design("disjoint blocks"), r4.cache)

\* incomplete_orthogonal_array after "elif orthogonal_array(k,n,existence=True):" got r3
incomplete_orthogonal_array_same(r3, k, n, existence, feasible) ==
    IF r3.out.kind = "error" THEN r3
    ELSE IF Truthy(r3.out.val)
    THEN incomplete_orthogonal_array_disjoint(orthogonal_array_k(r3.cache, k, n, 2, FALSE),
                                              existence, feasible)
    ELSE orthogonal_array_k(r3.cache, k, n, 2, existence)

\* incomplete_orthogonal_array after "elif orthogonal_array(k+1,n,existence=True):" got r1
incomplete_orthogonal_array_wider(r1, k, n, existence, feasible) ==
    IF r1.out.kind = "error" THEN r1
    ELSE IF Truthy(r1.out.val)
    THEN IF existence THEN Result(Answer("True"), r1.cache)
         ELSE DesignFrom(orthogonal_array_k(r1.cache, k + 1, n, 2, FALSE), "OA(k+1,n)")
    ELSE incomplete_orthogonal_array_same(orthogonal_array_k(r1.cache, k, n, 2, TRUE),
                                          k, n, existence, feasible)

\* the test with the column count of the wider array in the place of k
AllBlocksIntersect_wider(k, n, x) == x >= 2 /\ k = n + 2

\* "elif x >= 2 and k == n+1:", the blocks of an OA(n+1,n) meet pairwise
AllBlocksIntersect(k, n, x) == x >= 2 /\ k = n + 1

\* incomplete_orthogonal_array(k,n,holes_sizes,existence=existence); feasible tells
\* whether OA_find_disjoint_blocks finds x disjoint blocks in the OA(k,n) it is given
incomplete_orthogonal_array(c, k, n, holes_sizes, existence, feasible) ==
    IF SumSeq(holes_sizes) > n
    THEN Result(IF existence THEN Answer("False") ELSE Raise("EmptySetError"), c)
    ELSE IF \E i \in 1 .. Len(holes_sizes) : holes_sizes[i] # 1
    THEN Result(IF existence THEN Answer("Unknown") ELSE Raise("NotImplementedError"), c)
    ELSE IF Len(holes_sizes) <= 1
    THEN IF existence THEN orthogonal_array_k(c, k, n, 2, TRUE)
         ELSE DesignFrom(orthogonal_array_k(c, k, n, 2, FALSE), "x<=1")
    ELSE IF Len(holes_sizes) <= 3 /\ n > k - 1 /\ k >= 3 /\ existence
    THEN orthogonal_array_k(c, k, n, 2, TRUE)
    ELSE IF AllBlocksIntersect(k, n, Len(holes_sizes))
    THEN Result(IF existence THEN Answer("False") ELSE Raise("EmptySetError"), c)
    ELSE incomplete_orthogonal_array_wider(orthogonal_array_k(c, k + 1, n, 2, TRUE),
                                           k, n, existence, feasible)

(* ------------------------------- requests ------------------------------ *)
\* the hole lists of the requests: x unit holes, and two lists with a larger hole
HoleLists == {[i \in 1 .. x |-> 1] : x \in 0 .. MaxHoles} \cup {<<2>>, <<1, 2>>}

\* a request, the dictionary it was issued in and its outcome
Request(op, existence, k, n, t, holes, before, out) ==
    [op |-> op, existence |-> existence, k |-> k, n |-> n, t |-> t,
     holes |-> holes, value |-> "None", check |-> TRUE, args |-> <<>>,
     before |-> before, out |-> out]

\* no call is in progress
Idle == Request("none", FALSE, None, 0, 2, <<>>, <<>>, Raise("none"))

\* the collaborators answer as tables of real designs do: no OA(k,n) with k >= n+2,
\* none with k = n+1 when no projective plane of order n exists
SoundCollaborators(pp, oa, mols, rec) ==
    \A n \in 2 .. MaxN :
        LET top == IF pp[n] = "False" THEN n ELSE n + 1
        IN /\ oa[n] <= top
           /\ mols[n] # 0 => mols[n] + 2 <= top
           /\ \A k \in Columns : <<k, n>> \in rec => k <= top

\* answers the chain never reads are left out: with a plane of order n the chain
\* never reaches the tables, and only k > 3 reaches them
RelevantCollaborators(pp, oa, mols, rec) ==
    \A n \in 2 .. MaxN :
        /\ pp[n] = "True" => (oa[n] = 0 /\ mols[n] = 0 /\ \A k \in Columns : <<k, n>> \notin rec)
        /\ oa[n] # 0 => oa[n] > 3
        /\ mols[n] # 0 => mols[n] + 2 > 3
        /\ \A k \in Columns : <<k, n>> \in rec => k > 3

\* the dictionary when the module is loaded
InitialCache == [n \in Sizes |-> IF n <= 1 THEN <<Infinity, None, None, None>> ELSE NoRecord]

\* The collaborators' answers are fixed once and for all. One size, open, is given
\* any sound answers; the other sizes are orders of projective planes.
InitDelivering(d) ==
    /\ OA_cache = InitialCache
    /\ defect = d
    /\ \E open \in 2 .. MaxN, pp \in Troolean, oa \in 0 .. MaxN + 1, mols \in 0 .. MaxN - 1,
         rec \in SUBSET (4 .. MaxN + 1) :
        /\ projective_plane = [n \in 2 .. MaxN |-> IF n = open THEN pp ELSE "True"]
        /\ OA_constructions = [n \in 2 .. MaxN |-> IF n = open THEN oa ELSE 0]
        /\ MOLS_constructions = [n \in 2 .. MaxN |-> IF n = open THEN mols ELSE 0]
        /\ find_recursive_construction = {<<k, open>> : k \in rec}
    /\ SoundCollaborators(projective_plane, OA_constructions, MOLS_constructions,
                          find_recursive_construction)
    /\ RelevantCollaborators(projective_plane, OA_constructions, MOLS_constructions,
                             find_recursive_construction)
    /\ last = Idle
    /\ built = <<>>
    /\ callers = <<>>

\* the collaborators deliver valid arrays
Init == InitDelivering(0)

\* a call of orthogonal_array(k,n,t,existence=existence)
OrthogonalArray ==
    /\ last = Idle
    /\ \E k \in Columns \cup {None}, n \in Sizes, t \in Strengths, existence \in BOOLEAN :
        \E r \in {orthogonal_array(OA_cache, k, n, t, existence)} :
           /\ OA_cache' = r.cache
           /\ last' = Request("orthogonal_array", existence, k, n, t, <<>>, OA_cache, r.out)
    /\ UNCHANGED <<callers, collaborators, built>>

\* a call of transversal_design(k,n,existence=existence)
TransversalDesign ==
    /\ last = Idle
    /\ \E k \in Columns \cup {None}, n \in Sizes, existence \in BOOLEAN :
        \E r \in {transversal_design(OA_cache, k, n, existence)} :
           /\ OA_cache' = r.cache
           /\ last' = Request("transversal_design", existence, k, n, 2, <<>>, OA_cache, r.out)
    /\ UNCHANGED <<callers, collaborators, built>>

\* a call of incomplete_orthogonal_array(k,n,holes_sizes,existence=existence)
IncompleteOrthogonalArray ==
    /\ last = Idle
    /\ \E k \in Columns, n \in Sizes, holes \in HoleLists, existence \in BOOLEAN,
         feasible \in BOOLEAN :
        \E r \in {incomplete_orthogonal_array(OA_cache, k, n, holes, existence, feasible)} :
           /\ OA_cache' = r.cache
           /\ last' = Request("incomplete_orthogonal_array", existence, k, n, 2, holes,
                              OA_cache, r.out)
    /\ UNCHANGED <<callers, collaborators, built>>

\* the call returns to its caller, which takes the outcome
Return ==
    /\ last # Idle
    /\ last' = Idle
    /\ built' = <<>>
    /\ UNCHANGED <<callers, OA_cache, collaborators>>

Next == OrthogonalArray \/ TransversalDesign \/ IncompleteOrthogonalArray \/ Return

Spec == Init /\ [][Next]_vars

(* ---------------- the cache called directly (as its doctests do) ------- *)
\* the size and the column counts of the direct calls
SetSize == MaxN
SetColumns == 2 .. (MaxN + 2)

\* only the size SetSize is given open answers
InitSet == Init /\ \A n \in 2 .. MaxN : n # SetSize => projective_plane[n] = "True"

\* a call of _OA_cache_set(k,n,truth_value)
CacheSet ==
    /\ last = Idle
    /\ \E k \in SetColumns, truth_value \in Troolean :
        /\ OA_cache' = OA_cache_set(OA_cache, k, SetSize, truth_value)
        /\ last' = [Request("_OA_cache_set", FALSE, k, SetSize, 2, <<>>, OA_cache, Answer("None"))
                    EXCEPT !.value = truth_value]
    /\ UNCHANGED <<callers, collaborators, built>>

\* a call of _OA_cache_get(k,n)
CacheGet ==
    /\ last = Idle
    /\ \E k \in SetColumns :
        last' = Request("_OA_cache_get", FALSE, k, SetSize, 2, <<>>, OA_cache,
                        Answer(OA_cache_get(OA_cache, k, SetSize)))
    /\ UNCHANGED <<callers, OA_cache, collaborators, built>>

\* a call of orthogonal_array(k,SetSize,existence=existence)
OrthogonalArraySetSize ==
    /\ last = Idle
    /\ \E k \in Columns \cup {None}, existence \in BOOLEAN :
        \E r \in {orthogonal_array(OA_cache, k, SetSize, 2, existence)} :
           /\ OA_cache' = r.cache
           /\ last' = Request("orthogonal_array", existence, k, SetSize, 2, <<>>, OA_cache, r.out)
    /\ UNCHANGED <<callers, collaborators, built>>

NextSet == CacheSet \/ CacheGet \/ OrthogonalArraySetSize \/ Return

SpecSet == InitSet /\ [][NextSet]_vars

(* ----------------------- the arrays that are built --------------------- *)
\* the largest strength of the requests whose rows are built
MaxArrT == 3
ArrStrengths == 1 .. MaxArrT
Defects == -1 .. (MaxN + 1)

RECURSIVE Pow(_, _)
\* n^e
Pow(n, e) == IF e = 0 THEN 1 ELSE n * Pow(n, e - 1)

\* variant of the array of zeros that has one row more
Zeros_one_more(k, n) == [r \in 1 .. (n + 1) |-> [c \in 1 .. k |-> 0]]

\* "[[0]*k]*n"
Zeros(k, n) == [r \in 1 .. n |-> [c \in 1 .. k |-> 0]]

\* variant of the product that leaves the symbol 0 out of the last column
Product_short(n, k) ==
    [r \in 1 .. Pow(n, k) |-> [c \in 1 .. k |->
        IF c = k /\ (r - 1) % n = 0 THEN 1 ELSE ((r - 1) \div Pow(n, k - c)) % n]]

\* "map(list, product(range(n), repeat=k))": all k-tuples, in lexicographic order
Product(n, k) ==
    [r \in 1 .. Pow(n, k) |-> [c \in 1 .. k |-> ((r - 1) \div Pow(n, k - c)) % n]]

\* variant of the closed form whose third column is the product (i*j)%n
ClosedForm_product(n) ==
    [r \in 1 .. n * n |-> <<(r - 1) \div n, (r - 1) % n, (((r - 1) \div n) * ((r - 1) % n)) % n>>]

\* "[[i,j,(i+j)%n] for i in xrange(n) for j in xrange(n)]"
ClosedForm(n) ==
    [r \in 1 .. n * n |-> <<(r - 1) \div n, (r - 1) % n, (((r - 1) \div n) + ((r - 1) % n)) % n>>]

\* "[l[:k] for l in OA]"
Truncate(OA, k) == [r \in 1 .. Len(OA) |-> SubSeq(OA[r], 1, k)]

\* OA_from_wider_OA(OA,k)
OA_from_wider_OA(OA, k) == IF Len(OA[1]) = k THEN OA ELSE Truncate(OA, k)

\* "[[i,j]+[m[i,j] for m in mols] for i in range(n) for j in range(n)]"
FromSquares(mols, n) ==
    [r \in 1 .. n * n |->
        <<(r - 1) \div n, (r - 1) % n>>
        \o [s \in 1 .. Len(mols) |-> mols[s][(r - 1) \div n][(r - 1) % n]]]

\* is_orthogonal_array(OA,k,n,t): n^t rows of k symbols of [0,n), and every t columns
\* show every t-tuple exactly once
is_orthogonal_array(OA, k, n, t) ==
    /\ Len(OA) = Pow(n, t)
    /\ \A r \in 1 .. Len(OA) : Len(OA[r]) = k /\ \A c \in 1 .. k : OA[r][c] \in 0 .. (n - 1)
    /\ \A S \in {S \in SUBSET (1 .. k) : Cardinality(S) = t} :
          Cardinality({[c \in S |-> OA[r][c]] : r \in 1 .. Len(OA)}) = Len(OA)

\* the addition and the multiplication of the field with four elements
GF4Add == <<<<0, 1, 2, 3>>, <<1, 0, 3, 2>>, <<2, 3, 0, 1>>, <<3, 2, 1, 0>>>>
GF4Mul == <<<<0, 0, 0, 0>>, <<0, 1, 2, 3>>, <<0, 2, 3, 1>>, <<0, 3, 1, 2>>>>

\* i + m*j in the field with n elements (n prime or 4)
FieldLine(n, i, m, j) ==
    IF n = 4 THEN GF4Add[i + 1][GF4Mul[m + 1][j + 1] + 1] ELSE (i + m * j) % n

\* the entry of row (i,j) and column c of an orthogonal array of size n
FieldEntry(n, i, j, c) == IF c = 1 THEN i ELSE IF c = 2 THEN j ELSE FieldLine(n, i, c - 2, j)

\* an orthogonal array with w <= n+1 columns of a size n that is 0, 1, 4 or a prime
FieldArray(n, w) ==
    [r \in 1 .. n * n |-> [c \in 1 .. w |-> FieldEntry(n, (r - 1) \div n, (r - 1) % n, c)]]

\* the array OA as the collaborator delivers it: damaged when defect is not 0
Damaged(OA, n) ==
    IF defect = -1 THEN SubSeq(OA, 1, Len(OA) - 1)
    ELSE IF defect \in 1 .. Len(OA[1]) THEN [OA EXCEPT ![1][defect] = (@ + 1) % n]
    ELSE OA

\* the array with w columns that projective_plane_to_OA(p), OA_constructions[n][1]()
\* or f(*args) delivers
DeliveredArray(n, w) == Damaged(FieldArray(n, w), n)

\* the squares that MOLS_constructions[n][1]() delivers
DeliveredSquares(n, count) ==
    [s \in 1 .. count |-> [i \in 0 .. (n - 1) |-> [j \in 0 .. (n - 1) |->
        IF defect = s + 2 /\ i = 0 /\ j = 0
        THEN (FieldEntry(n, i, j, s + 2) + 1) % n
        ELSE FieldEntry(n, i, j, s + 2)]]]

\* the array OA that the step of the chain named via assigns, before the final check
Assembled(via, k, n) ==
    IF via = "n<=1" THEN Zeros(k, n)
    ELSE IF via = "plane"
    THEN IF k = n + 1 THEN DeliveredArray(n, n + 1) ELSE Truncate(DeliveredArray(n, n + 1), k)
    ELSE IF via = "OA_constructions"
    THEN OA_from_wider_OA(DeliveredArray(n, OA_constructions[n]), k)
    ELSE IF via = "TD_6_12"
    THEN [r \in 1 .. n * n |-> [c \in 1 .. 6 |-> DeliveredArray(n, 6)[r][c] % n]]
    ELSE IF via = "MOLS_constructions"
    THEN OA_from_wider_OA(FromSquares(DeliveredSquares(n, MOLS_constructions[n]), n), k)
    ELSE DeliveredArray(n, k)

Built(o, c, rows) == [out |-> o, cache |-> c, rows |-> rows]

\* variant of the final check that never fails
Checked_never(r, OA, k, n, t, check) == Built(r.out, r.cache, OA)

\* "if check: assert is_orthogonal_array(OA,k,n,t)" and "return OA"
Checked(r, OA, k, n, t, check) ==
    IF check /\ ~ is_orthogonal_array(OA, k, n, t)
    THEN Built(Raise("AssertionError"), r.cache, <<>>)
    ELSE Built(r.out, r.cache, OA)

\* the rows that a build request returns, r being the step that answers it
orthogonal_array_rows(r, k, n, t, check) ==
    IF r.out.kind # "design" THEN Built(r.out, r.cache, <<>>)
    ELSE IF r.out.val = "k<=t" THEN Built(r.out, r.cache, Product(n, k))
    ELSE IF r.out.val = "k<=3" THEN Built(r.out, r.cache, ClosedForm(n))
    ELSE Checked(r, Assembled(r.out.val, k, n), k, n, t, check)

\* the collaborators deliver arrays that may be damaged
InitArr == \E d \in Defects : InitDelivering(d)

\* a call of orthogonal_array(k,n,t,check=check) whose rows are kept
BuildArray ==
    /\ last = Idle
    /\ \E k \in Columns, n \in Sizes, t \in ArrStrengths, check \in BOOLEAN :
        \E r \in {orthogonal_array_rows(orthogonal_array_k(OA_cache, k, n, t, FALSE),
                                        k, n, t, check)} :
           /\ OA_cache' = r.cache
           /\ built' = r.rows
           /\ last' = [Request("orthogonal_array", FALSE, k, n, t, <<>>, OA_cache, r.out)
                       EXCEPT !.check = check]
    /\ UNCHANGED <<callers, collaborators>>

\* variant of the relabelling that starts the groups at n instead of 0
Relabel_shifted(OA, n) ==
    [r \in 1 .. Len(OA) |-> [i \in 1 .. Len(OA[r]) |-> i * n + OA[r][i]]]

\* "TD = [[i*n+c for i,c in enumerate(l)] for l in OA]"
Relabel(OA, n) ==
    [r \in 1 .. Len(OA) |-> [i \in 1 .. Len(OA[r]) |-> (i - 1) * n + OA[r][i]]]

\* "[[x%n for x in R] for R in B]"
Reduced(B, n) == [r \in 1 .. Len(B) |-> [i \in 1 .. Len(B[r]) |-> B[r][i] % n]]

\* is_transversal_design(B,k,n)
is_transversal_design(B, k, n) == is_orthogonal_array(Reduced(B, n), k, n, 2)

\* "if check: assert is_transversal_design(TD,k,n)" and "return TD"
TDChecked(r, TD, k, n, check) ==
    IF check /\ ~ is_transversal_design(TD, k, n)
    THEN Built(Raise("AssertionError"), r.cache, <<>>)
    ELSE Built(r.out, r.cache, TD)

\* the blocks that a build request of transversal_design returns, r being the step
\* that answers it
transversal_design_rows(r, k, n, check) ==
    IF r.out.kind # "design" THEN Built(r.out, r.cache, <<>>)
    ELSE IF r.out.val = "n=1" THEN TDChecked(r, <<[i \in 1 .. k |-> i - 1]>>, k, n, check)
    ELSE IF r.out.val = "TD_6_12" THEN TDChecked(r, Truncate(DeliveredArray(n, 6), k), k, n, check)
    ELSE TDChecked(r, Relabel(orthogonal_array_rows(r, k, n, 2, FALSE).rows, n), k, n, check)

\* a call of transversal_design(k,n,check=check) whose blocks are kept
BuildDesign ==
    /\ last = Idle
    /\ \E k \in Columns, n \in Sizes, check \in BOOLEAN :
        \E r \in {transversal_design_rows(transversal_design_k(OA_cache, k, n, FALSE),
                                          k, n, check)} :
           /\ OA_cache' = r.cache
           /\ built' = r.rows
           /\ last' = [Request("transversal_design", FALSE, k, n, 2, <<>>, OA_cache, r.out)
                       EXCEPT !.check = check]
    /\ UNCHANGED <<callers, collaborators>>

NextArr == BuildArray \/ BuildDesign \/ Return

SpecArr == InitArr /\ [][NextArr]_vars

(* ------------------- the incomplete arrays that are built --------------- *)
\* variant of the disjointness that compares the first coordinate only
DisjointBlocks_first(B1, B2) == Len(B1) >= 1 => B1[1] # B2[1]

\* the blocks B1 and B2 differ in every coordinate
DisjointBlocks(B1, B2) == \A i \in 1 .. Len(B1) : B1[i] # B2[i]

\* the sets of x blocks of OA, in the order of the rows, that the integer program of
\* OA_find_disjoint_blocks may return: x blocks that are pairwise disjoint
RECURSIVE OA_find_disjoint_blocks(_, _)
OA_find_disjoint_blocks(OA, x) ==
    IF x = 0 THEN {<<>>}
    ELSE UNION {{Append(s, j) : j \in {j \in 1 .. Len(OA) :
                                        /\ s = <<>> \/ j > s[Len(s)]
                                        /\ \A q \in 1 .. Len(s) :
                                              DisjointBlocks(OA[s[q]], OA[j])}}
                : s \in OA_find_disjoint_blocks(OA, x - 1)}

\* the blocks of OA at the rows that rows lists
BlocksAt(OA, rows) == [j \in 1 .. Len(rows) |-> OA[rows[j]]]

\* "OA.remove(B)": OA without the first row equal to B
RemoveBlock(OA, B) ==
    IF \E r \in 1 .. Len(OA) : OA[r] = B
    THEN SubSeq(OA, 1, (CHOOSE r \in 1 .. Len(OA) :
                           OA[r] = B /\ \A q \in 1 .. (r - 1) : OA[q] # B) - 1)
         \o SubSeq(OA, (CHOOSE r \in 1 .. Len(OA) :
                           OA[r] = B /\ \A q \in 1 .. (r - 1) : OA[q] # B) + 1, Len(OA))
    ELSE OA

\* "for B in independent_set: OA.remove(B)"
RECURSIVE RemoveBlocks(_, _)
RemoveBlocks(OA, blocks) ==
    IF blocks = <<>> THEN OA ELSE RemoveBlocks(RemoveBlock(OA, Head(blocks)), Tail(blocks))

\* variant of the duplicate test that looks at the first coordinate only
SameCoordinate_first(blocks) ==
    \E a \in 1 .. Len(blocks) : \E b \in 1 .. Len(blocks) :
        a # b /\ blocks[a][1] = blocks[b][1]

\* variant of the relabelling of a symbol that numbers the blocks downwards from n-1
RelabelSymbol_reversed(v, i, blocks, n) ==
    IF \E j \in 1 .. Len(blocks) : blocks[j][i] = v
    THEN n - (CHOOSE j \in 1 .. Len(blocks) : blocks[j][i] = v)
    ELSE Cardinality({u \in 0 .. (v - 1) : \A j \in 1 .. Len(blocks) : blocks[j][i] # u})

\* OA_relabel: "if len(B) != len(set(B))" holds for the coordinate i of some blocks
SameCoordinate(blocks) ==
    \E i \in 1 .. Len(blocks[1]) : \E a \in 1 .. Len(blocks) : \E b \in 1 .. Len(blocks) :
        a # b /\ blocks[a][i] = blocks[b][i]

\* variant of the relabelling of a symbol that numbers the blocks from n-x+1
RelabelSymbol_late(v, i, blocks, n) ==
    IF \E j \in 1 .. Len(blocks) : blocks[j][i] = v
    THEN n - Len(blocks) + (CHOOSE j \in 1 .. Len(blocks) : blocks[j][i] = v)
    ELSE Cardinality({u \in 0 .. (v - 1) : \A j \in 1 .. Len(blocks) : blocks[j][i] # u})

\* OA_relabel: l[i][v], where l[i] is
\* "dict(zip([xx for xx in range(n) if xx not in B] + list(B),range(n)))"
RelabelSymbol(v, i, blocks, n) ==
    IF \E j \in 1 .. Len(blocks) : blocks[j][i] = v
    THEN n - Len(blocks) + (CHOOSE j \in 1 .. Len(blocks) : blocks[j][i] = v) - 1
    ELSE Cardinality({u \in 0 .. (v - 1) : \A j \in 1 .. Len(blocks) : blocks[j][i] # u})

\* OA_relabel(OA,k,n,blocks=blocks) for blocks that differ in every coordinate
OA_relabel(OA, k, n, blocks) ==
    IF blocks = <<>> THEN OA
    ELSE [r \in 1 .. Len(OA) |-> [i \in 1 .. Len(OA[r]) |-> RelabelSymbol(OA[r][i], i, blocks, n)]]

\* the rows of "OA = orthogonal_array(k,n)" called in the dictionary c
BuiltRows(c, k, n) ==
    orthogonal_array_rows(orthogonal_array_k(c, k, n, 2, FALSE), k, n, 2, TRUE).rows

\* the dictionary after "orthogonal_array(k,n,existence=True)" called in the dictionary c
AfterDecide(c, k, n) == orthogonal_array_k(c, k, n, 2, TRUE).cache

\* the dictionary in which the branch "elif orthogonal_array(k,n,existence=True):"
\* builds its array
AfterBothDecides(c, k, n) == AfterDecide(AfterDecide(c, k + 1, n), k, n)

\* OA_find_disjoint_blocks(OA,k,n,x) raises no ValueError in that branch
Feasible(c, k, n, x) ==
    OA_find_disjoint_blocks(BuiltRows(AfterBothDecides(c, k, n), k, n), x) # {}

\* "OA.remove(B)" for the blocks of the independent set, then
\* "OA = OA_relabel(OA,k,n,blocks=independent_set)"
Holed(OA, independent_set, k, n) ==
    OA_relabel(RemoveBlocks(OA, independent_set), k, n, independent_set)

LastIsZero(B) == B[Len(B)] = 0

\* "[B[:-1] for B in OA if B[-1] == 0][:x]"
ZeroBlocks(OA, k, x) == SubSeq(Truncate(SelectSeq(OA, LastIsZero), k), 1, x)

\* the arrays that a build request of incomplete_orthogonal_array may return on the
\* branch named via, called in the dictionary c with x holes of size 1
incomplete_orthogonal_array_rows(via, c, k, n, x) ==
    IF via = "x<=1"
    THEN {Holed(BuiltRows(c, k, n), SubSeq(BuiltRows(c, k, n), 1, x), k, n)}
    ELSE IF via = "OA(k+1,n)"
    THEN {Holed(Truncate(BuiltRows(AfterDecide(c, k + 1, n), k + 1, n), k),
                ZeroBlocks(BuiltRows(AfterDecide(c, k + 1, n), k + 1, n), k, x), k, n)}
    ELSE IF via = "disjoint blocks"
    THEN {Holed(BuiltRows(AfterBothDecides(c, k, n), k, n),
                BlocksAt(BuiltRows(AfterBothDecides(c, k, n), k, n), S), k, n)
          : S \in OA_find_disjoint_blocks(BuiltRows(AfterBothDecides(c, k, n), k, n), x)}
    ELSE {BuiltRows(AfterBothDecides(c, k, n), k, n)}

\* a call of incomplete_orthogonal_array(k,n,holes_sizes,existence=existence) whose
\* rows are kept
BuildIncomplete ==
    /\ last = Idle
    /\ \E k \in Columns, n \in Sizes, holes \in HoleLists, existence \in BOOLEAN :
        \E r \in {incomplete_orthogonal_array(OA_cache, k, n, holes, existence,
                                              Feasible(OA_cache, k, n, Len(holes)))} :
           /\ OA_cache' = r.cache
           /\ last' = Request("incomplete_orthogonal_array", existence, k, n, 2, holes,
                              OA_cache, r.out)
           /\ IF r.out.kind = "design"
              THEN built' \in incomplete_orthogonal_array_rows(r.out.val, OA_cache, k, n,
                                                               Len(holes))
              ELSE built' = <<>>
    /\ UNCHANGED <<callers, collaborators>>

NextHoles == BuildIncomplete \/ Return

SpecHoles == Init /\ [][NextHoles]_vars

(* --------------------- the constructions called directly --------------- *)
\* the largest size of the designs that the constructions are given
MaxProdN == 3
ProdSizes == 0 .. MaxProdN

\* the module after import, with collaborators that play no part
InitPure ==
    /\ OA_cache = InitialCache
    /\ projective_plane = [n \in 2 .. MaxN |-> "True"]
    /\ OA_constructions = [n \in 2 .. MaxN |-> 0]
    /\ MOLS_constructions = [n \in 2 .. MaxN |-> 0]
    /\ find_recursive_construction = {}
    /\ defect = 0
    /\ last = Idle
    /\ built = <<>>
    /\ callers = <<>>

\* the array OA with s added to the symbols of its last column
ShiftedArray(OA, n, s) ==
    [r \in 1 .. Len(OA) |-> [c \in 1 .. Len(OA[r]) |->
        IF c = Len(OA[r]) THEN (OA[r][c] + s) % n ELSE OA[r][c]]]

\* the transversal designs of (k,n) in the standard labelling that the calls are given
StandardDesigns(k, n) ==
    {Relabel(ShiftedArray(FieldArray(n, k), n, s), n) : s \in 0 .. (IF n = 0 THEN 0 ELSE n - 1)}

\* the numbers of columns for which StandardDesigns(k,n1) and StandardDesigns(k,n2)
\* hold designs
ProdColumns(n1, n2) ==
    {k \in 0 .. (MaxProdN + 1) : (n1 >= 2 => k <= n1 + 1) /\ (n2 >= 2 => k <= n2 + 1)}

\* variant of the product that does not reduce the elements of TD2
TD_product_rows_unreduced(TD1, TD2, n2) ==
    [r \in 1 .. Len(TD1) * Len(TD2) |->
        [i \in 1 .. Len(TD1[((r - 1) \div Len(TD2)) + 1]) |->
            TD1[((r - 1) \div Len(TD2)) + 1][i] * n2 + TD2[((r - 1) % Len(TD2)) + 1][i]]]

\* "for X1 in TD1: for X2 in TD2: TD.append([x1*n2+(x2%n2) for x1,x2 in zip(X1,X2)])"
TD_product_rows(TD1, TD2, n2) ==
    [r \in 1 .. Len(TD1) * Len(TD2) |->
        [i \in 1 .. Len(TD1[((r - 1) \div Len(TD2)) + 1]) |->
            TD1[((r - 1) \div Len(TD2)) + 1][i] * n2
            + (TD2[((r - 1) % Len(TD2)) + 1][i] % n2)]]

\* TD_product(k,TD1,n1,TD2,n2,check=check)
TD_product(k, TD1, n1, TD2, n2, check) ==
    TDChecked(Result(Design("TD_product"), OA_cache), TD_product_rows(TD1, TD2, n2),
              k, n1 * n2, check)

\* a call of TD_product(k,TD1,n1,TD2,n2,check=check)
TDProduct ==
    /\ last = Idle
    /\ \E n1 \in ProdSizes, n2 \in ProdSizes, check \in BOOLEAN :
        \E k \in ProdColumns(n1, n2) :
          \E TD1 \in StandardDesigns(k, n1), TD2 \in StandardDesigns(k, n2) :
            \E r \in {TD_product(k, TD1, n1, TD2, n2, check)} :
               /\ built' = r.rows
               /\ last' = [Request("TD_product", FALSE, k, n1, 2, <<>>, OA_cache, r.out)
                           EXCEPT !.check = check, !.args = <<n2, TD1, TD2>>]
    /\ UNCHANGED <<callers, OA_cache, collaborators>>

NextProd == TDProduct \/ Return

SpecProd == InitPure /\ [][NextProd]_vars

(* ------------------------ the array tools called directly --------------- *)
\* the orthogonal arrays with k columns and n symbols that the tools are given
StandardArrays(k, n) ==
    {ShiftedArray(FieldArray(n, k), n, s) : s \in 0 .. (IF n = 0 THEN 0 ELSE n - 1)}

\* the column counts of the arrays of StandardArrays
ToolColumns(n) == {k \in 1 .. (MaxN + 1) : n >= 2 => k <= n + 1}

\* OA_find_disjoint_blocks(OA,k,n,x): ValueError when the integer program has no
\* solution, and otherwise the blocks of one of its solutions
OA_find_disjoint_blocks_call(OA, x) ==
    IF OA_find_disjoint_blocks(OA, x) = {}
    THEN {Built(Raise("ValueError"), OA_cache, <<>>)}
    ELSE {Built(Design("independent set"), OA_cache, BlocksAt(OA, S))
          : S \in OA_find_disjoint_blocks(OA, x)}

\* a call of OA_find_disjoint_blocks(OA,k,n,x)
FindDisjointBlocks ==
    /\ last = Idle
    /\ \E n \in Sizes :
        \E k \in ToolColumns(n), x \in 0 .. (n + 1) :
          \E OA \in StandardArrays(k, n) :
            \E r \in OA_find_disjoint_blocks_call(OA, x) :
               /\ built' = r.rows
               /\ last' = [Request("OA_find_disjoint_blocks", FALSE, k, n, 2, <<>>,
                                   OA_cache, r.out) EXCEPT !.args = <<OA, x>>]
    /\ UNCHANGED <<callers, OA_cache, collaborators>>

\* the largest size and the largest number of anchor blocks of the relabellings
MaxToolN == 3
MaxAnchors == 2

\* the blocks of k symbols of [0,n)
Tuples(k, n) == [1 .. k -> 0 .. (n - 1)]

\* the lists of at most MaxAnchors blocks, whether they share a coordinate or not
AnchorLists(k, n) == UNION {[1 .. x -> Tuples(k, n)] : x \in 0 .. MaxAnchors}

\* the bijections of [0,n)
Perms(n) ==
    {p \in [0 .. (n - 1) -> 0 .. (n - 1)] : \A u, v \in 0 .. (n - 1) : p[u] = p[v] => u = v}

\* the matrices of dimensions k,n whose rows are bijections of [0,n)
Tables(k, n) == [1 .. k -> Perms(n)]

\* the matrix that reverses [0,n) in every coordinate
ReversedTable(k, n) == [i \in 1 .. k |-> [v \in 0 .. (n - 1) |-> n - 1 - v]]

\* the array OA with None in the place of the symbols u,...,n-1 of the column c
TruncatedColumn(OA, c, u) ==
    [r \in 1 .. Len(OA) |-> [i \in 1 .. Len(OA[r]) |->
        IF i = c /\ OA[r][i] >= u THEN None ELSE OA[r][i]]]

\* the arrays that OA_relabel is given: orthogonal arrays, orthogonal arrays with a
\* truncated column, and arrays of a single block
RelabelArrays(k, n) ==
    StandardArrays(k, n)
    \cup {TruncatedColumn(OA, c, u) : OA \in StandardArrays(k, n), c \in 1 .. k,
                                      u \in 0 .. (n - 1)}
    \cup {<<B>> : B \in Tuples(k, n)}

\* the arguments blocks and matrix of the calls; the empty tuple stands for a matrix
\* that is None
RelabelArguments(k, n) ==
    {<<blocks, matrix>> : blocks \in AnchorLists(k, n), matrix \in {<<>>, ReversedTable(k, n)}}
    \cup {<<<<>>, matrix>> : matrix \in Tables(k, n)}

\* variant of the translation of an entry that reads the matrix at None as Python
\* reads a list at -1
MatrixEntry_wrapped(matrix, i, j) ==
    matrix[i][IF j = None THEN Cardinality(DOMAIN matrix[i]) - 1 ELSE j]

\* "matrix[i][j] if j is not None else None"
MatrixEntry(matrix, i, j) == IF j = None THEN None ELSE matrix[i][j]

\* "if matrix: OA = [[matrix[i][j] if j is not None else None for i,j in
\* enumerate(R)] for R in OA]"
OA_relabel_matrix(OA, matrix) ==
    IF matrix = <<>> THEN OA
    ELSE [r \in 1 .. Len(OA) |-> [i \in 1 .. Len(OA[r]) |-> MatrixEntry(matrix, i, OA[r][i])]]

\* OA_relabel(OA,k,n,blocks=blocks,matrix=matrix): RuntimeError when two blocks share
\* a coordinate, KeyError when "l[i][x]" is read at a None coordinate
OA_relabel_call(OA, k, n, blocks, matrix) ==
    IF blocks # <<>> /\ SameCoordinate(blocks)
    THEN Built(Raise("RuntimeError"), OA_cache, <<>>)
    ELSE IF blocks # <<>> /\ \E r \in 1 .. Len(OA) : \E i \in 1 .. Len(OA[r]) : OA[r][i] = None
    THEN Built(Raise("KeyError"), OA_cache, <<>>)
    ELSE Built(Design("OA_relabel"), OA_cache,
               OA_relabel_matrix(OA_relabel(OA, k, n, blocks), matrix))

\* a call of OA_relabel(OA,k,n,blocks=blocks,matrix=matrix)
OARelabel ==
    /\ last = Idle
    /\ \E n \in 0 .. MaxToolN :
        \E k \in {k \in ToolColumns(n) : k <= MaxToolN} :
          \E OA \in RelabelArrays(k, n), a \in RelabelArguments(k, n) :
            \E r \in {OA_relabel_call(OA, k, n, a[1], a[2])} :
               /\ built' = r.rows
               /\ last' = [Request("OA_relabel", FALSE, k, n, 2, <<>>, OA_cache, r.out)
                           EXCEPT !.args = <<OA, a[1], a[2]>>]
    /\ UNCHANGED <<callers, OA_cache, collaborators>>

\* OA_from_wider_OA(OA,k) called directly: "len(OA[0])" raises IndexError when OA has
\* no row
OA_from_wider_OA_call(OA, k) ==
    IF OA = <<>> THEN Built(Raise("IndexError"), OA_cache, <<>>)
    ELSE Built(Design("OA_from_wider_OA"), OA_cache, OA_from_wider_OA(OA, k))

\* a call of OA_from_wider_OA(OA,k) with an array of w >= k columns
OAFromWiderOA ==
    /\ last = Idle
    /\ \E n \in Sizes :
        \E w \in ToolColumns(n) :
          \E OA \in StandardArrays(w, n) \cup {<<B>> : B \in Tuples(w, n)},
             k \in 0 .. w :
            \E r \in {OA_from_wider_OA_call(OA, k)} :
               /\ built' = r.rows
               /\ last' = [Request("OA_from_wider_OA", FALSE, k, n, 2, <<>>, OA_cache, r.out)
                           EXCEPT !.args = <<OA, w>>]
    /\ UNCHANGED <<callers, OA_cache, collaborators>>

NextTools == FindDisjointBlocks \/ OARelabel \/ OAFromWiderOA \/ Return

SpecTools == InitPure /\ [][NextTools]_vars

(* -------------------------- Wilson's construction ----------------------- *)
\* the largest multiplier m of the calls
MaxWilsonM == 3

NotNone(x) == x # None

\* "n_trunc-B.count(None)": the number of truncated columns in which B is present
InTruncated(B, k) == Cardinality({i \in (k + 1) .. Len(B) : B[i] # None})

\* "set(sum(xx!=None for xx in B) for B in OA)" as the numbers i-k, in ascending order
BlockSizes(OA, k) ==
    SelectSeq([b \in 1 .. (Len(OA[1]) - k + 1) |->
                  IF \E j \in 1 .. Len(OA) : InTruncated(OA[j], k) = b - 1
                  THEN b - 1 ELSE None], NotNone)

\* the entry of OA_k_mpi that the call q for size n with b holes adds to the entries p
WilsonIncompleteEntry(p, q, k, n, b) ==
    IF q.out.kind = "error" THEN [out |-> q.out, cache |-> q.cache, rows |-> <<>>]
    ELSE [out |-> p.out, cache |-> q.cache,
          rows |-> Append(p.rows, incomplete_orthogonal_array_rows(q.out.val, p.cache, k, n, b))]

\* the next entry of OA_k_mpi after the entries of p: the call for size n with b holes
WilsonIncompleteNext(p, k, n, b) ==
    IF p.out.kind = "error" THEN p
    ELSE WilsonIncompleteEntry(p, incomplete_orthogonal_array(p.cache, k, n, [j \in 1 .. b |-> 1],
                                   FALSE, Feasible(p.cache, k, n, b)), k, n, b)

\* the outcome, the dictionary and the arrays of "OA_k_mpi = {i-k+m:
\* incomplete_orthogonal_array(k, i-k+m, (1,)*(i-k)) for i in block_sizes}": for every
\* b = i-k the set of the arrays that the call may return
RECURSIVE wilson_incomplete(_, _, _, _)
wilson_incomplete(c, k, m, bs) ==
    IF bs = <<>> THEN [out |-> Design("OA_k_mpi"), cache |-> c, rows |-> <<>>]
    ELSE WilsonIncompleteNext(wilson_incomplete(c, k, m, SubSeq(bs, 1, Len(bs) - 1)),
                              k, m + bs[Len(bs)], bs[Len(bs)])

\* the entry of OA_k_u that the call q adds to the entries p
WilsonFullEntry(p, q) ==
    IF q.out.kind = "error" THEN [out |-> q.out, cache |-> q.cache, rows |-> <<>>]
    ELSE [out |-> p.out, cache |-> q.cache, rows |-> Append(p.rows, q.rows)]

\* the next entry of OA_k_u after the entries of p: the call orthogonal_array(k, uu)
WilsonFullNext(p, k, uu) ==
    IF p.out.kind = "error" THEN p
    ELSE WilsonFullEntry(p, orthogonal_array_rows(orthogonal_array_k(p.cache, k, uu, 2, FALSE),
                                                  k, uu, 2, TRUE))

\* the outcome, the dictionary and the arrays of
\* "OA_k_u = {uu: orthogonal_array(k, uu) for uu in u}", made after the calls of p
RECURSIVE wilson_full(_, _, _)
wilson_full(p, k, u) ==
    IF u = <<>> THEN [out |-> p.out, cache |-> p.cache, rows |-> <<>>]
    ELSE WilsonFullNext(wilson_full(p, k, SubSeq(u, 1, Len(u) - 1)), k, u[Len(u)])

\* variant of the appended values that does not move past the earlier truncated columns
WilsonAppended_unshifted(B, k, r, m, u) ==
    SelectSeq([i \in 1 .. Len(u) |->
                  IF B[k + i] = None THEN None ELSE r * m + B[k + i]], NotNone)

\* the values "c+B[k+i]" appended to every row of the matrix of the block B
WilsonAppended(B, k, r, m, u) ==
    SelectSeq([i \in 1 .. Len(u) |->
                  IF B[k + i] = None THEN None
                  ELSE r * m + SumSeq(SubSeq(u, 1, i - 1)) + B[k + i]], NotNone)

\* "matrix = [range(i*m,(i+1)*m) for i in B[:k]]" with the appended values
WilsonMatrix(B, k, r, m, u) ==
    [i \in 1 .. k |-> [v \in 0 .. (m + Len(WilsonAppended(B, k, r, m, u)) - 1) |->
        IF v < m THEN B[i] * m + v ELSE WilsonAppended(B, k, r, m, u)[v - m + 1]]]

\* the position in OA_k_mpi of the array with b holes
WilsonIndex(bs, b) == CHOOSE j \in 1 .. Len(bs) : bs[j] = b

RECURSIVE Concat(_)
\* the concatenation of a list of arrays ("OA.extend")
Concat(arrays) ==
    IF arrays = <<>> THEN <<>>
    ELSE Concat(SubSeq(arrays, 1, Len(arrays) - 1)) \o arrays[Len(arrays)]

\* "for B in master_design: ... OA.extend(OA_relabel(OA_k_mpi[m+n_in_truncated],k,
\* m+n_in_truncated,matrix=matrix))"
WilsonBlocks(master_design, OA_k_mpi, k, r, m, u) ==
    Concat([j \in 1 .. Len(master_design) |->
        OA_relabel_matrix(OA_k_mpi[WilsonIndex(BlockSizes(master_design, k),
                                               InTruncated(master_design[j], k))],
                          WilsonMatrix(master_design[j], k, r, m, u))])

\* "for uu in u: OA.extend(OA_relabel(OA_k_u[uu],k,u,matrix=[range(c,c+uu)]*k))"
WilsonColumns(OA_k_u, k, r, m, u) ==
    Concat([i \in 1 .. Len(u) |->
        OA_relabel_matrix(OA_k_u[i],
            [c \in 1 .. k |-> [v \in 0 .. (u[i] - 1) |->
                r * m + SumSeq(SubSeq(u, 1, i - 1)) + v]])])

\* "if check: assert is_orthogonal_array(OA,k,n,2)" and "return OA" for every choice
\* of the arrays of OA_k_mpi, f being the outcome of the calls that deliver the arrays
WilsonAssembled(f, mpi, master_design, k, r, m, u, check) ==
    IF f.out.kind = "error" THEN {Built(f.out, f.cache, <<>>)}
    ELSE {Checked(Result(Design("wilson_construction"), f.cache),
                  WilsonBlocks(master_design, OA_k_mpi, k, r, m, u)
                  \o WilsonColumns(f.rows, k, r, m, u),
                  k, r * m + SumSeq(u), 2, check)
          : OA_k_mpi \in {s \in [1 .. Len(mpi) -> UNION {mpi[j] : j \in 1 .. Len(mpi)}] :
                              \A j \in 1 .. Len(mpi) : s[j] \in mpi[j]}}

\* the arrays that wilson_construction(OA,k,r,m,n_trunc,u,check=check) may return, or
\* the failure of the call that did not deliver its array
wilson_construction(c, master_design, k, r, m, u, check) ==
    WilsonAssembled(wilson_full(wilson_incomplete(c, k, m, BlockSizes(master_design, k)), k, u),
                    wilson_incomplete(c, k, m, BlockSizes(master_design, k)).rows,
                    master_design, k, r, m, u, check)

RECURSIVE TruncatedColumns(_, _, _)
\* the array OA whose column k+i holds the symbols of [0,u[i]) only, for every i
TruncatedColumns(OA, k, u) ==
    IF u = <<>> THEN OA
    ELSE TruncatedColumn(TruncatedColumns(OA, k, SubSeq(u, 1, Len(u) - 1)),
                         k + Len(u), u[Len(u)])

\* the parameters <<k, r, m, u>> of the calls
WilsonParameters ==
    {p \in (2 .. MaxN) \X (2 .. MaxN) \X (1 .. MaxWilsonM) \X
           UNION {[1 .. s -> 0 .. MaxN] : s \in 0 .. 2} :
        /\ p[1] + Len(p[4]) <= p[2] + 1
        /\ p[3] + Len(p[4]) <= MaxN
        /\ \A i \in 1 .. Len(p[4]) : p[4][i] <= p[2]}

\* a call of wilson_construction(OA,k,r,m,n_trunc,u,check=check) with a truncated
\* OA(k+n_trunc,r)
WilsonConstruction ==
    /\ last = Idle
    /\ \E p \in WilsonParameters, check \in BOOLEAN :
        \E OA \in {TruncatedColumns(A, p[1], p[4]) : A \in StandardArrays(p[1] + Len(p[4]), p[2])} :
          \E b \in wilson_construction(OA_cache, OA, p[1], p[2], p[3], p[4], check) :
             /\ OA_cache' = b.cache
             /\ built' = b.rows
             /\ last' = [Request("wilson_construction", FALSE, p[1], p[2] * p[3] + SumSeq(p[4]),
                                 2, <<>>, OA_cache, b.out)
                         EXCEPT !.check = check, !.args = <<OA, p[2], p[3], p[4]>>]
    /\ UNCHANGED <<callers, collaborators>>

NextWilson == WilsonConstruction \/ Return

SpecWilson == InitPure /\ [][NextWilson]_vars

(* ---------------------- the construction from a PBD --------------------- *)
\* the blocks D+i of the integers modulo n, for a difference set D
CyclicPBD(n, D) == [i \in 1 .. n |-> [j \in 1 .. Len(D) |-> (D[j] + i - 1) % n]]

\* the designs <<n, PBD>> that the calls are given: a single block, all the pairs, a
\* triangle with a fourth point, the planes of order 2 and 3 and the affine plane of
\* order 3, and two lists of blocks that are no PBD on [0,n)
PBDs ==
    {<<0, <<>>>>, <<1, <<>>>>, <<1, <<<<0>>>>>>, <<2, <<<<0, 1>>>>>>, <<2, <<<<1, 0>>>>>>,
     <<3, <<<<0, 1, 2>>>>>>, <<3, <<<<2, 0, 1>>>>>>, <<4, <<<<0, 1, 2, 3>>>>>>,
     <<3, <<<<0, 1>>, <<0, 2>>, <<1, 2>>>>>>,
     <<4, <<<<0, 1, 2>>, <<0, 3>>, <<3, 1>>, <<2, 3>>>>>>,
     <<7, CyclicPBD(7, <<0, 1, 3>>)>>,
     <<9, <<<<0, 1, 2>>, <<3, 4, 5>>, <<6, 7, 8>>, <<0, 3, 6>>, <<1, 4, 7>>, <<2, 5, 8>>,
            <<0, 4, 8>>, <<1, 5, 6>>, <<2, 3, 7>>, <<0, 5, 7>>, <<1, 3, 8>>, <<2, 4, 6>>>>>>,
     <<13, CyclicPBD(13, <<0, 1, 3, 9>>)>>,
     <<4, <<<<0, 1, 2>>, <<0, 1, 3>>>>>>,
     <<3, <<<<0, 1, 2, 3>>>>>>}

\* _check_pbd(PBD, n, K) raises no RuntimeError: the points lie in [0,n) and every two
\* points lie together in exactly one block
check_pbd(PBD, n) ==
    /\ \A j \in 1 .. Len(PBD) : \A i \in 1 .. Len(PBD[j]) : PBD[j][i] \in 0 .. (n - 1)
    /\ \A x, y \in 0 .. (n - 1) :
          x < y => Cardinality({<<j, a, b>> \in (1 .. Len(PBD)) \X (1 .. MaxN) \X (1 .. MaxN) :
                                   /\ a <= Len(PBD[j]) /\ b <= Len(PBD[j]) /\ a # b
                                   /\ PBD[j][a] = x /\ PBD[j][b] = y}) = 1

\* "K = set(map(len,PBD))", in ascending order
BlockLengths(PBD) ==
    SelectSeq([s \in 1 .. (MaxN + 1) |-> IF \E j \in 1 .. Len(PBD) : Len(PBD[j]) = s - 1
                                         THEN s - 1 ELSE None], NotNone)

\* the outcome, the dictionary and the arrays of
\* "OAs = {i:incomplete_orthogonal_array(k,i,(1,)*i) for i in K}"
PBDIncomplete(c, k, K) == wilson_incomplete(c, k, 0, K)

\* "for S in PBD: for B in OAs[len(S)]: OA.append([S[i] for i in B])"
PBDBlocks(PBD, OAs, k) ==
    Concat([j \in 1 .. Len(PBD) |->
        [q \in 1 .. Len(OAs[WilsonIndex(BlockLengths(PBD), Len(PBD[j]))]) |->
            [c \in 1 .. k |->
                PBD[j][OAs[WilsonIndex(BlockLengths(PBD), Len(PBD[j]))][q][c] + 1]]]])

\* variant of the constant rows that leaves the last point out
PBDDiagonal_short(k, n) == [i \in 1 .. (n - 1) |-> [c \in 1 .. k |-> i - 1]]

\* "for i in range(n): OA.append([i]*k)"
PBDDiagonal(k, n) == [i \in 1 .. n |-> [c \in 1 .. k |-> i - 1]]

\* "if check: assert is_orthogonal_array(OA,k,n,2)" and "return OA" for every choice
\* of the arrays of OAs, f being the outcome of the calls that deliver them
PBDAssembled(f, PBD, k, n, check) ==
    IF f.out.kind = "error" THEN {Built(f.out, f.cache, <<>>)}
    ELSE {Checked(Result(Design("OA_from_PBD"), f.cache),
                  PBDBlocks(PBD, OAs, k) \o PBDDiagonal(k, n), k, n, 2, check)
          : OAs \in {s \in [1 .. Len(f.rows) -> UNION {f.rows[j] : j \in 1 .. Len(f.rows)}] :
                         \A j \in 1 .. Len(f.rows) : s[j] \in f.rows[j]}}

\* the arrays that OA_from_PBD(k,n,PBD,check=check) may return, or its failure
OA_from_PBD(c, k, n, PBD, check) ==
    IF check /\ ~ check_pbd(PBD, n) THEN {Built(Raise("RuntimeError"), c, <<>>)}
    ELSE PBDAssembled(PBDIncomplete(c, k, BlockLengths(PBD)), PBD, k, n, check)

\* a call of OA_from_PBD(k,n,PBD,check=check)
OAFromPBD ==
    /\ last = Idle
    /\ \E d \in PBDs, k \in 2 .. MaxN, check \in BOOLEAN :
        \E b \in OA_from_PBD(OA_cache, k, d[1], d[2], check) :
           /\ OA_cache' = b.cache
           /\ built' = b.rows
           /\ last' = [Request("OA_from_PBD", FALSE, k, d[1], 2, <<>>, OA_cache, b.out)
                       EXCEPT !.check = check, !.args = <<d[2]>>]
    /\ UNCHANGED <<callers, collaborators>>

NextPBD == OAFromPBD \/ Return

SpecPBD == InitPure /\ [][NextPBD]_vars

(* ------------------------------- two callers of _OA_cache_set at once *)

\* the callers that run _OA_cache_set for the same n at the same time
Callers == {1, 2}

\* two callers enter _OA_cache_set(k,n,truth_value) with n = SetSize, each with its own
\* k and truth_value; neither has read the record yet
StartSets ==
    /\ last = Idle
    /\ callers = <<>>
    /\ \E k1 \in SetColumns, k2 \in SetColumns, v1 \in Troolean, v2 \in Troolean :
        callers' = [p \in Callers |->
                       [pc |-> "read",
                        k |-> IF p = 1 THEN k1 ELSE k2,
                        truth_value |-> IF p = 1 THEN v1 ELSE v2,
                        record |-> <<>>]]
    /\ last' = Request("_OA_cache_set", FALSE, None, SetSize, 2, <<>>, OA_cache, Answer("None"))
    /\ UNCHANGED <<OA_cache, collaborators, built>>

\* caller p reads the record of n out of the dictionary into its local variables
SetRead(p) ==
    /\ callers # <<>>
    /\ callers[p].pc = "read"
    /\ callers' = [callers EXCEPT ![p].pc = "write",
                                  ![p].record = CacheRecord(OA_cache, SetSize)]
    /\ UNCHANGED <<OA_cache, collaborators, last, built>>

\* caller p updates its local variables and stores them as the record of n; nothing
\* in the function keeps another caller from having stored a record in between
SetWrite(p) ==
    /\ callers # <<>>
    /\ callers[p].pc = "write"
    /\ OA_cache' = [OA_cache EXCEPT ![SetSize] =
                        OA_cache_updated(callers[p].record, callers[p].k,
                                         callers[p].truth_value)]
    /\ callers' = [callers EXCEPT ![p].pc = "done"]
    /\ UNCHANGED <<collaborators, last, built>>

\* both callers have returned
Join ==
    /\ callers # <<>>
    /\ \A p \in Callers : callers[p].pc = "done"
    /\ callers' = <<>>
    /\ last' = Idle
    /\ UNCHANGED <<OA_cache, collaborators, built>>

NextConc == StartSets \/ (\E p \in Callers : SetRead(p)) \/ (\E p \in Callers : SetWrite(p)) \/ Join

SpecConc == InitPure /\ [][NextConc]_vars

(* ------------------- the development of a difference matrix ------------ *)
\* the largest cyclic group, and the most rows and columns, of the matrices given to
\* OA_from_quasi_difference_matrix
MaxQdmG == 3
MaxQdmRows == 3
MaxQdmColumns == 3

\* the matrices M over the cyclic group of order g: lines of the same length whose
\* entries are elements of the group or None
QdmMatrices(g) ==
    UNION {[1 .. rows -> [1 .. cols -> (0 .. (g - 1)) \cup {None}]]
           : rows \in 1 .. MaxQdmRows, cols \in 1 .. MaxQdmColumns}

\* the value of inf when the entry l of line is reached: Gn plus the number of None
\* entries of the line before it, whatever the element g of the group
QdmInf(line, l, Gn) == Gn + Cardinality({j \in 1 .. (l - 1) : line[j] = None})

\* variant of the entry that translates the symbols of the holes with the group
QdmEntry_translated(line, l, g, Gn) ==
    IF line[l] = None THEN QdmInf(line, l, Gn) + g ELSE (g + line[l]) % Gn

\* the entry that the element g of the group and the entry l of line append to new_line
QdmEntry(line, l, g, Gn) ==
    IF line[l] = None THEN QdmInf(line, l, Gn) ELSE (g + line[l]) % Gn

\* new_line for a line of M: "the line+x, for all x in G", one after the other
QdmNewLine(line, Gn) ==
    [p \in 1 .. (Gn * Len(line)) |->
        QdmEntry(line, ((p - 1) % Len(line)) + 1, (p - 1) \div Len(line), Gn)]

\* new_M before it is transposed: the developed lines, and with add_col the line
\* "[i%(Gn) for i in range(len(new_line))]"
QdmNewM(M, Gn, add_col) ==
    IF add_col
    THEN Append([i \in 1 .. Len(M) |-> QdmNewLine(M[i], Gn)],
                [p \in 1 .. (Gn * Len(M[Len(M)])) |-> (p - 1) % Gn])
    ELSE [i \in 1 .. Len(M) |-> QdmNewLine(M[i], Gn)]

\* "new_M = zip(*new_M)"
QdmTransposed(new_M) ==
    [p \in 1 .. Len(new_M[1]) |-> [i \in 1 .. Len(new_M) |-> new_M[i][p]]]

\* the value of inf after the loops: the one that the last line of M leaves
QdmLastInf(M, Gn) == QdmInf(M[Len(M)], Len(M[Len(M)]) + 1, Gn)

\* "new_M.append(tuple([x+Gn for x in L]))" for the rows L of the array that r holds
QdmFilled(new_M, r, Gn) ==
    IF r.out.kind = "error" THEN r
    ELSE Built(Design("OA_from_quasi_difference_matrix"), r.cache,
               new_M \o [q \in 1 .. Len(r.rows) |->
                            [i \in 1 .. Len(r.rows[q]) |-> r.rows[q][i] + Gn]])

\* OA_from_quasi_difference_matrix(M,G,add_col) for the cyclic group G of order Gn,
\* called in the dictionary c
OA_from_quasi_difference_matrix(c, M, Gn, add_col) ==
    IF QdmLastInf(M, Gn) > Gn
    THEN QdmFilled(QdmTransposed(QdmNewM(M, Gn, add_col)),
                   orthogonal_array_rows(
                       orthogonal_array_k(c, Len(M) + (IF add_col THEN 1 ELSE 0),
                                          QdmLastInf(M, Gn) - Gn, 2, FALSE),
                       Len(M) + (IF add_col THEN 1 ELSE 0), QdmLastInf(M, Gn) - Gn, 2, TRUE),
                   Gn)
    ELSE Built(Design("OA_from_quasi_difference_matrix"), c,
               QdmTransposed(QdmNewM(M, Gn, add_col)))

\* a call of OA_from_quasi_difference_matrix(M,G,add_col)
OAFromQuasiDifferenceMatrix ==
    /\ last = Idle
    /\ \E Gn \in 1 .. MaxQdmG, add_col \in BOOLEAN :
        \E M \in QdmMatrices(Gn) :
           \E b \in {OA_from_quasi_difference_matrix(OA_cache, M, Gn, add_col)} :
              /\ OA_cache' = b.cache
              /\ built' = b.rows
              /\ last' = [Request("OA_from_quasi_difference_matrix", FALSE,
                                  Len(M) + (IF add_col THEN 1 ELSE 0), Gn, 2, <<>>,
                                  OA_cache, b.out)
                          EXCEPT !.args = <<M, add_col>>]
    /\ UNCHANGED <<callers, collaborators>>

NextQdm == OAFromQuasiDifferenceMatrix \/ Return

SpecQdm == InitPure /\ [][NextQdm]_vars

(* ------------------------------- claims -------------------------------- *)
\* C1: for n>1, t>=2 and k>=n+t, a build request of the resolver raises
\* EmptySetError and a decide-existence request returns False, whatever
\* the cache holds when the request is made
C1_Nonexistence ==
    (/\ last.op = "orthogonal_array"
     /\ last.k # None
     /\ last.n > 1
     /\ last.t >= 2
     /\ last.k >= last.n + last.t)
    => last.out = IF last.existence THEN Answer("False") ELSE Raise("EmptySetError")

\* C1 witness: a build request with k>=n+t, made when the cache holds a record for n,
\* has raised EmptySetError
C1_Witness ==
    /\ last.op = "orthogonal_array"
    /\ ~ last.existence
    /\ last.k # None
    /\ last.n > 1
    /\ last.k >= last.n + last.t
    /\ last.before[last.n] # NoRecord
    /\ last.out = Raise("EmptySetError")

\* C2 (as stated): every record of a size n>1 has 0<=max_true and, when the unknown
\* band is defined, max_true < min_unknown <= max_unknown < min_false
C2_CacheInvariant ==
    \A n \in Sizes :
        (n > 1 /\ OA_cache[n] # NoRecord) =>
            /\ 0 <= OA_cache[n][1]
            /\ OA_cache[n][2] # None =>
                  /\ OA_cache[n][1] < OA_cache[n][2]
                  /\ OA_cache[n][2] <= OA_cache[n][3]
                  /\ OA_cache[n][3] < OA_cache[n][4]


\* the build outcome b and the existence answer d of one request correspond
Corresponds(b, d) ==
    /\ b.kind = "design" <=> d = Answer("True")
    /\ b = Raise("EmptySetError") <=> d = Answer("False")
    /\ b = Raise("NotImplementedError") <=> d = Answer("Unknown")

\* C3 (as stated): for t=2 and an explicit k>=t, a build request returns an array
\* exactly when a decide-existence request made in the same cache state returns True,
\* raises EmptySetError exactly when it returns False and NotImplementedError exactly
\* when it returns Unknown
C3_BuildDecide ==
    (/\ last.op = "orthogonal_array"
     /\ ~ last.existence
     /\ last.t = 2
     /\ last.k # None
     /\ last.k >= last.t)
    => Corresponds(last.out, orthogonal_array_k(last.before, last.k, last.n, 2, TRUE).out)

\* the answer of a decide-existence request for (k,n,t) made in the cache c
Decide(c, k, n, t) == orthogonal_array_k(c, k, n, t, TRUE).out

\* C5 (as stated): for n>1 and t>=2, a decide-existence request with k unspecified
\* returns an integer K such that a decide request for (K,n,t) returns True and no
\* k>K has a decide request returning True, and K=t when t>2
C5_LargestK ==
    (/\ last.op = "orthogonal_array"
     /\ last.k = None
     /\ last.existence
     /\ last.n > 1
     /\ last.t >= 2)
    => /\ last.out.kind = "largest"
       /\ last.out.num # None
       /\ Decide(OA_cache, last.out.num, last.n, last.t) = Answer("True")
       /\ \A k \in Columns : k > last.out.num =>
              Decide(OA_cache, k, last.n, last.t) # Answer("True")
       /\ last.t > 2 => last.out.num = last.t

\* a decide-existence request with t=2 and an explicit k that returned True or False
DefinitiveVerdict ==
    /\ last.op = "orthogonal_array"
    /\ last.existence
    /\ last.t = 2
    /\ last.k # None
    /\ last.out \in {Answer("True"), Answer("False")}

\* C6 (as stated): after a decide-existence request with t=2 returns True or False
\* for (k,n), the cache get(k,n) returns that same verdict, not "absent"
C6_VerdictCached ==
    DefinitiveVerdict => OA_cache_get(OA_cache, last.k, last.n) = last.out.val

\* C6 (amended): after such a request, get(k,n) returns that same verdict or "absent",
\* and it returns the verdict itself whenever n<=1 or 3<k<n+2; the steps k>=n+2 and
\* k<=3 of a size n>1 answer without writing to the cache
C6_VerdictCachedOrAbsent ==
    DefinitiveVerdict =>
        /\ OA_cache_get(OA_cache, last.k, last.n) \in {last.out.val, "None"}
        /\ (last.n <= 1 \/ (3 < last.k /\ last.k < last.n + 2)) =>
              OA_cache_get(OA_cache, last.k, last.n) = last.out.val

\* C6 witness: a verdict for 3<k<n+2 that the cache did not hold before the request
\* is held by it afterwards
C6_Witness ==
    /\ DefinitiveVerdict
    /\ last.n > 1
    /\ 3 < last.k
    /\ last.k < last.n + 2
    /\ OA_cache_get(last.before, last.k, last.n) = "None"
    /\ OA_cache_get(OA_cache, last.k, last.n) = last.out.val

\* the record new is the record old, tightened
Tightened(old, new) ==
    /\ new[1] >= old[1]
    /\ new[4] <= old[4]
    /\ old[2] # None => (new[2] # None /\ new[2] <= old[2])
    /\ old[3] # None => (new[3] # None /\ new[3] >= old[3])

\* the call _OA_cache_set(k,n,truth_value) extends a breakpoint of the record r
Extends(r, k, truth_value) ==
    IF truth_value = "True" THEN k > r[1]
    ELSE IF truth_value = "Unknown" THEN r[2] = None \/ k < r[2] \/ k > r[3]
    ELSE k < r[4]

\* C7: in every step of set operations and resolver requests, for each n the record
\* (an absent one counting as (0,None,None,n+2)) is only tightened: max_true does not
\* decrease, min_false does not increase, min_unknown does not increase and
\* max_unknown does not decrease; a record once created is never removed; and a set
\* whose k does not extend the relevant breakpoint leaves the record's values unchanged
C7_OnlyTightened ==
    [][\A n \in Sizes :
          /\ OA_cache[n] # NoRecord => OA_cache'[n] # NoRecord
          /\ n > 1 => Tightened(CacheRecord(OA_cache, n), CacheRecord(OA_cache', n))
          /\ n <= 1 => OA_cache'[n] = OA_cache[n]
          /\ (/\ last'.op = "_OA_cache_set"
              /\ last'.n = n
              /\ ~ Extends(CacheRecord(OA_cache, n), last'.k, last'.value))
             => CacheRecord(OA_cache', n) = CacheRecord(OA_cache, n)]_vars

\* C7 witness: a set of True below max_true has left an existing record unchanged
C7_Witness ==
    /\ last.op = "_OA_cache_set"
    /\ last.value = "True"
    /\ last.before[last.n] # NoRecord
    /\ last.k < last.before[last.n][1]
    /\ OA_cache[last.n] = last.before[last.n]

\* C8: in every cache state reached by set operations, if get(k,n) returns True then
\* get(k',n) returns True or "absent" for every k'<k, never Unknown or False
C8_Monotonicity ==
    (last.op = "_OA_cache_get" /\ last.out = Answer("True"))
    => \A kp \in 0 .. (last.k - 1) : OA_cache_get(OA_cache, kp, last.n) \in {"True", "None"}

\* C8 witness: get has returned True at a k that lies above the lower end of the
\* unknown band of the record
C8_Witness ==
    /\ last.op = "_OA_cache_get"
    /\ last.out = Answer("True")
    /\ OA_cache[last.n] # NoRecord
    /\ OA_cache[last.n][2] # None
    /\ OA_cache[last.n][2] < last.k

\* C9: a resolver request with an explicit k<t raises ValueError in both modes, for
\* every n and whatever the cache holds, and leaves the cache unchanged
C9_InvalidParameter ==
    (/\ last.op = "orthogonal_array"
     /\ last.k # None
     /\ last.k < last.t)
    => /\ last.out = Raise("ValueError")
       /\ OA_cache = last.before

\* C9 witness: a decide-existence request with k<t for which the cache holds a True
\* record covering k has raised ValueError
C9_Witness ==
    /\ last.op = "orthogonal_array"
    /\ last.existence
    /\ last.k # None
    /\ last.k < last.t
    /\ last.n > 1
    /\ OA_cache_get(last.before, last.k, last.n) = "True"
    /\ last.out = Raise("ValueError")

\* a build request of the resolver with validation enabled
CheckedBuild ==
    /\ last.op = "orthogonal_array"
    /\ ~ last.existence
    /\ last.k # None
    /\ last.check

\* the array that the collaborator of the step named via delivered, before truncation
Delivered(via, k, n) ==
    IF via = "plane" THEN DeliveredArray(n, n + 1)
    ELSE IF via = "OA_constructions" THEN DeliveredArray(n, OA_constructions[n])
    ELSE IF via = "MOLS_constructions"
    THEN FromSquares(DeliveredSquares(n, MOLS_constructions[n]), n)
    ELSE DeliveredArray(n, k)

AllTuplesBuilt ==
    /\ last.out.kind = "design"
    /\ Len(built) = Pow(last.n, last.k)
    /\ Cardinality({built[r] : r \in 1 .. Len(built)}) = Len(built)
    /\ {built[r] : r \in 1 .. Len(built)} = [1 .. last.k -> 0 .. (last.n - 1)]

\* C10 (as stated): for every n>=0, every t and every k<=t, a build request for
\* (k,n,t) returns n^k pairwise distinct rows whose set is [0,n)^k
C10_AllTuples ==
    (/\ last.op = "orthogonal_array"
     /\ ~ last.existence
     /\ last.k # None
     /\ last.k <= last.t)
    => AllTuplesBuilt

\* C10 (amended): for every n>=0, every t>=1 and k=t, a build request for (k,n,t)
\* returns n^k pairwise distinct rows whose set is [0,n)^k; for k<t it raises ValueError
C10_AllTuplesAtStrength ==
    (/\ last.op = "orthogonal_array"
     /\ ~ last.existence
     /\ last.k # None
     /\ last.k <= last.t)
    => IF last.k = last.t THEN AllTuplesBuilt ELSE last.out = Raise("ValueError")

\* C10 witness: a build request with k=t=3 for a size n>1 has returned its n^3 rows
C10_Witness ==
    /\ last.op = "orthogonal_array"
    /\ ~ last.existence
    /\ last.k = 3
    /\ last.t = 3
    /\ last.n > 1
    /\ Len(built) = Pow(last.n, 3)
    /\ AllTuplesBuilt

\* C11: for t=2, k=3 and every n>=2, whatever the cache holds, a build request returns
\* exactly the n^2 rows [i, j, (i+j) mod n] for i,j in [0,n) (for n=2 the rows
\* [0,0,0],[0,1,1],[1,0,1],[1,1,0]), and this array is a valid OA(3,n,2)
C11_ClosedForm ==
    (/\ last.op = "orthogonal_array"
     /\ ~ last.existence
     /\ last.t = 2
     /\ last.k = 3
     /\ last.n >= 2)
    => /\ last.out.kind = "design"
       /\ Len(built) = last.n * last.n
       /\ \A i \in 0 .. (last.n - 1) : \A j \in 0 .. (last.n - 1) :
             built[i * last.n + j + 1] = <<i, j, (i + j) % last.n>>
       /\ is_orthogonal_array(built, 3, last.n, 2)
       /\ last.n = 2 => {built[r] : r \in 1 .. Len(built)}
                          = {<<0, 0, 0>>, <<0, 1, 1>>, <<1, 0, 1>>, <<1, 1, 0>>}

\* C11 witness: a build request for k=3, made when the cache holds a record for n,
\* has returned its n^2 rows
C11_Witness ==
    /\ last.op = "orthogonal_array"
    /\ ~ last.existence
    /\ last.t = 2
    /\ last.k = 3
    /\ last.n >= 2
    /\ last.before[last.n] # NoRecord
    /\ last.out.kind = "design"
    /\ Len(built) = last.n * last.n

\* C12: for every strength t other than 2, every n>1 and every k with t<k<n+t, a
\* decide-existence request returns Unknown and a build request raises
\* NotImplementedError, whatever the collaborators and the cache contain
C12_OnlyTrivialStrength ==
    (/\ last.op = "orthogonal_array"
     /\ last.k # None
     /\ last.t # 2
     /\ last.n > 1
     /\ last.t < last.k
     /\ last.k < last.n + last.t)
    => last.out = IF last.existence THEN Answer("Unknown") ELSE Raise("NotImplementedError")

\* C12 witness: a decide-existence request with t=3, for a k that the cache answers
\* True at t=2, has returned Unknown
C12_Witness ==
    /\ last.op = "orthogonal_array"
    /\ last.existence
    /\ last.k # None
    /\ last.t = 3
    /\ last.n > 1
    /\ last.t < last.k
    /\ last.k < last.n + last.t
    /\ OA_cache_get(last.before, last.k, last.n) = "True"
    /\ last.out = Answer("Unknown")

\* the request is a build request for n in {0,1} and an explicit k; a decide-existence
\* request made in the same state returns True, the build request returns n rows of
\* k zeros; with k unspecified decide-existence returns +Infinity and build raises
\* ValueError
TrivialSize ==
    /\ Decide(last.before, last.k, last.n, last.t) = Answer("True")
    /\ last.out.kind = "design"
    /\ Len(built) = last.n
    /\ \A r \in 1 .. Len(built) : built[r] = [c \in 1 .. last.k |-> 0]
    /\ orthogonal_array(last.before, None, last.n, last.t, TRUE).out = Largest(Infinity)
    /\ orthogonal_array(last.before, None, last.n, last.t, FALSE).out = Raise("ValueError")

\* C13 (as stated): for n in {0,1} and every explicit k, a decide-existence request
\* returns True and a build request returns exactly n rows of k zeros; with k
\* unspecified, decide-existence returns +Infinity and build raises ValueError
C13_TrivialSize ==
    (/\ last.op = "orthogonal_array"
     /\ ~ last.existence
     /\ last.k # None
     /\ last.n <= 1)
    => TrivialSize

\* C13 (amended): the same for every explicit k>=t; for k<t both requests raise
\* ValueError
C13_TrivialSizeFromStrength ==
    (/\ last.op = "orthogonal_array"
     /\ ~ last.existence
     /\ last.k # None
     /\ last.n <= 1)
    => IF last.k >= last.t THEN TrivialSize
       ELSE /\ last.out = Raise("ValueError")
            /\ Decide(last.before, last.k, last.n, last.t) = Raise("ValueError")

\* C13 witness: a build request for n=1 and k>t>2 has returned a single row of k zeros
C13_Witness ==
    /\ last.op = "orthogonal_array"
    /\ ~ last.existence
    /\ last.n = 1
    /\ last.t > 2
    /\ last.k > last.t
    /\ last.out.kind = "design"
    /\ built = <<[c \in 1 .. last.k |-> 0]>>

\* C14 (as stated): for every explicit k and every n>=0, a transversal_design
\* decide-existence request has the same outcome (True, False, Unknown or the same
\* failure) as an orthogonal_array decide-existence request for (k,n,2) made in the
\* same cache state
C14_LayerEquivalent ==
    (/\ last.op = "transversal_design"
     /\ last.existence
     /\ last.k # None)
    => last.out = Decide(last.before, last.k, last.n, 2)

\* C15 (as stated): for every explicit k and every n>=0, transversal_design in build
\* mode raises EmptySetError exactly when its decide-existence answer in the same
\* cache state is False, raises NotImplementedError exactly when that answer is
\* Unknown, and returns a design exactly when that answer is True
C15_LayerBuildDecide ==
    (/\ last.op = "transversal_design"
     /\ ~ last.existence
     /\ last.k # None)
    => Corresponds(last.out, transversal_design_k(last.before, last.k, last.n, TRUE).out)

\* C16: every design returned by a transversal_design build request for (k,n), made
\* with validation enabled or with collaborators that deliver valid arrays, is the
\* image of an OA(k,n,2) under row[i] -> i*n + value: each block has k elements, its
\* i-th element lies in the group [i*n,(i+1)*n), the elements reduced mod n form a
\* valid OA(k,n,2) with n^2 rows, and for n=1 the design is the block [0,1,...,k-1]
C16_DesignIsImage ==
    (/\ last.op = "transversal_design"
     /\ ~ last.existence
     /\ last.k # None
     /\ last.out.kind = "design"
     /\ (last.check \/ defect = 0))
    => /\ Len(built) = last.n * last.n
       /\ \A r \in 1 .. Len(built) :
             /\ Len(built[r]) = last.k
             /\ \A i \in 1 .. last.k :
                   built[r][i] \in ((i - 1) * last.n) .. (i * last.n - 1)
       /\ is_orthogonal_array([r \in 1 .. Len(built) |->
                                  [i \in 1 .. last.k |-> built[r][i] % last.n]],
                              last.k, last.n, 2)
       /\ last.n = 1 => built = <<[i \in 1 .. last.k |-> i - 1]>>

\* C16 witness: a build request of transversal_design for k>3 and n>1 has returned a
\* design of n^2 blocks
C16_Witness ==
    /\ last.op = "transversal_design"
    /\ ~ last.existence
    /\ last.k > 3
    /\ last.n > 1
    /\ last.out.kind = "design"
    /\ Len(built) = last.n * last.n
    /\ built[Len(built)][last.k] >= (last.k - 1) * last.n

\* C17: for every k and every pair of valid transversal designs TD1 of (k,n1) and TD2
\* of (k,n2) in the standard labelling, TD_product returns |TD1|*|TD2| = (n1*n2)^2
\* blocks whose i-th coordinate is x1_i*n2 + (x2_i mod n2), lying in the group
\* [i*n1*n2,(i+1)*n1*n2), and the result is a valid transversal design for (k,n1*n2)
C17_ProductLaw ==
    last.op = "TD_product" =>
        /\ last.out.kind = "design"
        /\ Len(built) = Len(last.args[2]) * Len(last.args[3])
        /\ Len(built) = (last.n * last.args[1]) * (last.n * last.args[1])
        /\ \A r1 \in 1 .. Len(last.args[2]) : \A r2 \in 1 .. Len(last.args[3]) :
              /\ Len(built[(r1 - 1) * Len(last.args[3]) + r2]) = last.k
              /\ \A i \in 1 .. last.k :
                    /\ built[(r1 - 1) * Len(last.args[3]) + r2][i]
                         = last.args[2][r1][i] * last.args[1]
                           + (last.args[3][r2][i] % last.args[1])
                    /\ built[(r1 - 1) * Len(last.args[3]) + r2][i]
                         \in ((i - 1) * last.n * last.args[1])
                             .. (i * last.n * last.args[1] - 1)
        /\ is_orthogonal_array([r \in 1 .. Len(built) |->
                                   [i \in 1 .. last.k |->
                                       built[r][i] % (last.n * last.args[1])]],
                               last.k, last.n * last.args[1], 2)

\* C17 witness: the product of designs of two different sizes n1,n2>=2 with k>=3
\* columns has (n1*n2)^2 blocks
C17_Witness ==
    /\ last.op = "TD_product"
    /\ last.k >= 3
    /\ last.n >= 2
    /\ last.args[1] > last.n
    /\ last.out.kind = "design"
    /\ Len(built) = (last.n * last.args[1]) * (last.n * last.args[1])

\* the rows returned, together with the x constant rows [n-x]^k,...,[n-1]^k
WithHoleBlocks ==
    built \o [j \in 1 .. Len(last.holes) |->
                 [i \in 1 .. last.k |-> last.n - Len(last.holes) + j - 1]]

\* C18: whenever incomplete_orthogonal_array returns an array in build mode for
\* (k,n) with x unit holes, on any of its branches, the array has n^2-x rows and,
\* together with the x constant rows [n-x]^k,...,[n-1]^k, forms a valid OA(k,n,2)
C18_HolesComplete ==
    (/\ last.op = "incomplete_orthogonal_array"
     /\ ~ last.existence
     /\ last.out.kind = "design")
    => /\ Len(built) = last.n * last.n - Len(last.holes)
       /\ is_orthogonal_array(WithHoleBlocks, last.k, last.n, 2)

\* C18 witness: a build request with more than one hole, answered by the extraction of
\* disjoint blocks, has returned n^2-x rows
C18_Witness ==
    /\ last.op = "incomplete_orthogonal_array"
    /\ ~ last.existence
    /\ last.out = Design("disjoint blocks")
    /\ Len(last.holes) >= 2
    /\ Len(built) = last.n * last.n - Len(last.holes)

\* a request of incomplete_orthogonal_array for k=n+1 columns, n>=2, and x unit
\* holes with 2<=x<=n
PlaneForcedRequest ==
    /\ last.op = "incomplete_orthogonal_array"
    /\ last.n >= 2
    /\ last.k = last.n + 1
    /\ Len(last.holes) >= 2
    /\ Len(last.holes) <= last.n
    /\ \A i \in 1 .. Len(last.holes) : last.holes[i] = 1

\* C19: for n>=2, k=n+1 and x unit holes with 2<=x<=n, incomplete_orthogonal_array
\* returns False in decide-existence mode and raises EmptySetError in build mode, and
\* the cache is left as it was: the resolver is not consulted
C19_PlaneForced ==
    PlaneForcedRequest
    => /\ last.out = (IF last.existence THEN Answer("False") ELSE Raise("EmptySetError"))
       /\ OA_cache = last.before
       /\ built = <<>>

\* C19 witness: a build request for k=n+1 with unit holes raised EmptySetError in a
\* cache state where the resolver, had it been asked, decides that the OA(n+1,n) exists
\* and writes that into the cache
C19_Witness ==
    /\ PlaneForcedRequest
    /\ ~ last.existence
    /\ last.out = Raise("EmptySetError")
    /\ Decide(last.before, last.k, last.n, 2) = Answer("True")
    /\ AfterDecide(last.before, last.k, last.n) # last.before

\* the outcome of the build request incomplete_orthogonal_array(k,n,holes_sizes) made
\* in the cache c
BuildHoles(c, k, n, holes_sizes) ==
    incomplete_orthogonal_array(c, k, n, holes_sizes, FALSE,
                                Feasible(c, k, n, Len(holes_sizes))).out

\* C20 (as stated): whenever a decide-existence request of incomplete_orthogonal_array
\* for unit holes returns True, the build request with the same arguments, made in the
\* same cache state with the same collaborators, returns a design and raises no failure
C20_TrueIsBuildable ==
    (/\ last.op = "incomplete_orthogonal_array"
     /\ last.existence
     /\ \A i \in 1 .. Len(last.holes) : last.holes[i] = 1
     /\ last.out = Answer("True"))
    => BuildHoles(last.before, last.k, last.n, last.holes).kind = "design"

\* C21: for a valid OA(k,n), a successful OA_find_disjoint_blocks returns exactly x
\* rows of the given array that show x distinct symbols in every column, and for
\* every x>n the extraction raises ValueError
C21_DisjointExtraction ==
    last.op = "OA_find_disjoint_blocks"
    => /\ is_orthogonal_array(last.args[1], last.k, last.n, 2)
       /\ last.args[2] > last.n => last.out = Raise("ValueError")
       /\ last.out.kind = "design"
          => /\ Len(built) = last.args[2]
             /\ \A j \in 1 .. Len(built) :
                   \E r \in 1 .. Len(last.args[1]) : last.args[1][r] = built[j]
             /\ \A i \in 1 .. last.k :
                   Cardinality({built[j][i] : j \in 1 .. Len(built)}) = last.args[2]
       /\ last.out.kind # "design" => last.out = Raise("ValueError") /\ built = <<>>

\* C21 witness: n disjoint blocks were extracted from an array with n>=3 symbols and
\* k>=3 columns
C21_Witness ==
    /\ last.op = "OA_find_disjoint_blocks"
    /\ last.out.kind = "design"
    /\ last.n >= 3
    /\ last.k >= 3
    /\ last.args[2] = last.n
    /\ Len(built) = last.n

\* a call of OA_relabel with an array without None, anchor blocks that differ
\* pairwise in every coordinate, and no matrix
AnchorRelabelling ==
    /\ last.op = "OA_relabel"
    /\ last.args[3] = <<>>
    /\ \A r \in 1 .. Len(last.args[1]) : \A i \in 1 .. last.k : last.args[1][r][i] # None
    /\ \A i \in 1 .. last.k : \A a, b \in 1 .. Len(last.args[2]) :
          a # b => last.args[2][a][i] # last.args[2][b][i]

\* C22: for an array over [0,n) and x anchor blocks that differ pairwise in every
\* column, OA_relabel applies in each column a bijection of [0,n) that sends the value
\* of the j-th anchor to n-x+j-1 and the other values, in increasing order, to
\* 0..n-x-1; the j-th anchor block becomes the constant row [n-x+j-1]^k and a valid
\* OA(k,n,2) stays a valid OA(k,n,2)
C22_AnchorRelabelling ==
    AnchorRelabelling
    => /\ last.out.kind = "design"
       /\ Len(built) = Len(last.args[1])
       /\ \A i \in 1 .. last.k : \E f \in Perms(last.n) :
             /\ \A r \in 1 .. Len(built) : built[r][i] = f[last.args[1][r][i]]
             /\ \A j \in 1 .. Len(last.args[2]) :
                   f[last.args[2][j][i]] = last.n - Len(last.args[2]) + j - 1
             /\ \A u, v \in 0 .. (last.n - 1) :
                   (/\ u < v
                    /\ \A j \in 1 .. Len(last.args[2]) :
                          last.args[2][j][i] # u /\ last.args[2][j][i] # v)
                   => f[u] < f[v]
       /\ \A r \in 1 .. Len(built) : \A j \in 1 .. Len(last.args[2]) :
             last.args[1][r] = last.args[2][j]
             => built[r] = [i \in 1 .. last.k |-> last.n - Len(last.args[2]) + j - 1]
       /\ is_orthogonal_array(last.args[1], last.k, last.n, 2)
          => is_orthogonal_array(built, last.k, last.n, 2)

\* C22 witness: a valid array with 3 symbols and 3 columns was relabelled by two of
\* its blocks, which became the constant rows [1]^3 and [2]^3
C22_Witness ==
    /\ AnchorRelabelling
    /\ last.n = 3
    /\ last.k = 3
    /\ Len(last.args[2]) = 2
    /\ is_orthogonal_array(last.args[1], 3, 3, 2)
    /\ \E r \in 1 .. Len(built) : last.args[1][r] = last.args[2][1] /\ built[r] = <<1, 1, 1>>
    /\ \E r \in 1 .. Len(built) : last.args[1][r] = last.args[2][2] /\ built[r] = <<2, 2, 2>>
    /\ built # last.args[1]

\* C23: when two anchor blocks share a value in some column, OA_relabel raises
\* RuntimeError and returns no array, whatever the array and the matrix are
C23_SharedCoordinate ==
    (/\ last.op = "OA_relabel"
     /\ \E i \in 1 .. last.k : \E a, b \in 1 .. Len(last.args[2]) :
           a # b /\ last.args[2][a][i] = last.args[2][b][i])
    => last.out = Raise("RuntimeError") /\ built = <<>>

\* C23 witness: two anchor blocks that agree in the last of three columns only, given
\* with a matrix, raised RuntimeError
C23_Witness ==
    /\ last.op = "OA_relabel"
    /\ last.k = 3
    /\ Len(last.args[2]) = 2
    /\ last.args[3] # <<>>
    /\ last.args[2][1][1] # last.args[2][2][1]
    /\ last.args[2][1][2] # last.args[2][2][2]
    /\ last.args[2][1][3] = last.args[2][2][3]
    /\ last.out = Raise("RuntimeError")

\* the matrix whose rows are the inverses of the rows of matrix
InverseTable(matrix, n) ==
    [i \in 1 .. Len(matrix) |->
        [v \in 0 .. (n - 1) |-> CHOOSE u \in 0 .. (n - 1) : matrix[i][u] = v]]

\* C24: relabelling an array by a matrix whose rows are bijections of [0,n) and then
\* by the matrix of the inverses gives the original rows, and both passes leave the
\* None coordinates where they are
C24_RoundTrip ==
    (/\ last.op = "OA_relabel"
     /\ last.args[2] = <<>>
     /\ last.args[3] # <<>>)
    => /\ last.out.kind = "design"
       /\ \A r \in 1 .. Len(built) : \A i \in 1 .. last.k :
             built[r][i] = None <=> last.args[1][r][i] = None
       /\ OA_relabel_call(built, last.k, last.n, <<>>,
                          InverseTable(last.args[3], last.n)).rows = last.args[1]

\* C24 witness: an array with None coordinates was changed by a matrix that is not its
\* own inverse
C24_Witness ==
    /\ last.op = "OA_relabel"
    /\ last.args[2] = <<>>
    /\ last.args[3] # <<>>
    /\ InverseTable(last.args[3], last.n) # last.args[3]
    /\ \E r \in 1 .. Len(built) : \E i \in 1 .. last.k : built[r][i] = None
    /\ \E r \in 1 .. Len(built) : \E i \in 1 .. last.k :
          built[r][i] # None /\ built[r][i] # last.args[1][r][i]

\* C25 (as stated): for every array OA and every k not larger than its column count,
\* OA_from_wider_OA returns the first k columns of every row in the same order; an
\* array that has k columns is returned unchanged, truncating the result once more to
\* k changes nothing, and a valid OA(k',n,2) truncated to 2<=k<=k' columns is a valid
\* OA(k,n,2)
C25_Truncation ==
    last.op = "OA_from_wider_OA"
    => /\ last.out.kind = "design"
       /\ Len(built) = Len(last.args[1])
       /\ \A r \in 1 .. Len(built) :
             /\ Len(built[r]) = last.k
             /\ \A i \in 1 .. last.k : built[r][i] = last.args[1][r][i]
       /\ last.k = last.args[2] => built = last.args[1]
       /\ OA_from_wider_OA_call(built, last.k).rows = built
       /\ (last.k >= 2 /\ is_orthogonal_array(last.args[1], last.args[2], last.n, 2))
          => is_orthogonal_array(built, last.k, last.n, 2)

\* the number of rows that the block B of the master design is replaced with
WilsonChunk(B) ==
    (last.args[3] + InTruncated(B, last.k)) * (last.args[3] + InTruncated(B, last.k))
    - InTruncated(B, last.k)

\* the rows of the result that replace the j-th block of the master design
WilsonRowsOf(j) ==
    {SumSeq([i \in 1 .. (j - 1) |-> WilsonChunk(last.args[1][i])]) + q
     : q \in 1 .. WilsonChunk(last.args[1][j])}

\* the symbols that the block B may send to the column c of the result: the range
\* [B[c]*m, (B[c]+1)*m) of its full entry and, for every present entry v of a truncated
\* column j, the symbol r*m + u_1+...+u_(j-1) + v
WilsonSymbols(B, c) ==
    (B[c] * last.args[3]) .. ((B[c] + 1) * last.args[3] - 1)
    \cup {last.args[2] * last.args[3] + SumSeq(SubSeq(last.args[4], 1, j - 1)) + B[last.k + j]
          : j \in {j \in 1 .. Len(last.args[4]) : B[last.k + j] # None}}

\* C26: given a truncated OA(k+s,r) whose first k columns carry no hole, the sizes u of
\* the truncated columns and incomplete and full arrays that the calls deliver,
\* wilson_construction returns a valid OA(k,n,2) with n = r*m + sum(u) and n^2 rows, in
\* which every block of the master design is replaced with rows whose column c shows
\* exactly the symbols of the range of its full entry and of its present truncated
\* entries
C26_Wilson ==
    (/\ last.op = "wilson_construction"
     /\ last.out \notin {Raise("EmptySetError"), Raise("NotImplementedError")})
    => /\ last.out.kind = "design"
       /\ Len(built) = last.n * last.n
       /\ is_orthogonal_array(built, last.k, last.n, 2)
       /\ \A j \in 1 .. Len(last.args[1]) : \A c \in 1 .. last.k :
             {built[q][c] : q \in WilsonRowsOf(j)} = WilsonSymbols(last.args[1][j], c)

\* C26 witness: an unchecked call with two truncated columns of different sizes and
\* more than 3 columns in the master design returned a valid array in which two
\* symbols past r*m stand side by side
C26_Witness ==
    /\ last.op = "wilson_construction"
    /\ ~ last.check
    /\ last.k >= 3
    /\ Len(last.args[4]) = 2
    /\ last.args[4][1] # last.args[4][2]
    /\ last.args[4][1] >= 2
    /\ last.args[4][2] >= 1
    /\ last.out.kind = "design"
    /\ is_orthogonal_array(built, last.k, last.n, 2)
    /\ \E q \in 1 .. Len(built) :
          /\ built[q][1] >= last.args[2] * last.args[3]
          /\ built[q][1] < last.args[2] * last.args[3] + last.args[4][1]
          /\ built[q][2] >= last.args[2] * last.args[3] + last.args[4][1]

\* C27: for a valid PBD over [0,n) and a k for which the incomplete arrays of its block
\* sizes are delivered, OA_from_PBD returns the sum over the blocks B of |B|^2-|B| rows
\* followed by the n constant rows [i]^k, that is n^2 rows, and the result is a valid
\* OA(k,n,2)
C27_FromPBD ==
    (/\ last.op = "OA_from_PBD"
     /\ check_pbd(last.args[1], last.n)
     /\ last.out \notin {Raise("EmptySetError"), Raise("NotImplementedError")})
    => /\ last.out.kind = "design"
       /\ Len(built) = SumSeq([j \in 1 .. Len(last.args[1]) |->
                                  Len(last.args[1][j]) * Len(last.args[1][j])
                                  - Len(last.args[1][j])]) + last.n
       /\ Len(built) = last.n * last.n
       /\ \A i \in 1 .. last.n :
             built[Len(built) - last.n + i] = [c \in 1 .. last.k |-> i - 1]
       /\ is_orthogonal_array(built, last.k, last.n, 2)

\* C27 witness: an unchecked call with the projective plane of order 3 and k=4
\* returned the 169 rows of a valid OA(4,13)
C27_Witness ==
    /\ last.op = "OA_from_PBD"
    /\ ~ last.check
    /\ last.n = 13
    /\ last.k = 4
    /\ check_pbd(last.args[1], 13)
    /\ last.out.kind = "design"
    /\ Len(built) = 169
    /\ is_orthogonal_array(built, 4, 13, 2)

\* the dictionary c holds for n a record whose unknown band begins at k or below
UnknownRecorded(c, k, n) == c[n] # NoRecord /\ c[n][2] # None /\ c[n][2] <= k

\* the request r is a resolver request with t=2 and an explicit k that fell through
\* the chain: Unknown in decide-existence mode, NotImplementedError in build mode
FellThrough(r) ==
    /\ r.op = "orthogonal_array"
    /\ r.t = 2
    /\ r.k # None
    /\ r.out = (IF r.existence THEN Answer("Unknown") ELSE Raise("NotImplementedError"))

\* one step of the program in which (1) a request that fell through for (k,n) leaves a
\* record with k in its unknown band, (2) no record loses an unknown band or moves its
\* lower end up, (3) _OA_cache_construction_available(k',n) is False for every k' at or
\* above that lower end and above max_true, and (4) a resolver request with t=2 for such
\* a k' is not answered by the tables or by the recursive constructions
UnknownSticks ==
    /\ FellThrough(last')
       => /\ UnknownRecorded(OA_cache', last'.k, last'.n)
          /\ OA_cache'[last'.n][3] >= last'.k
    /\ \A n \in Sizes : \A k \in Columns :
          UnknownRecorded(OA_cache, k, n) => UnknownRecorded(OA_cache', k, n)
    /\ \A n \in Sizes : \A k \in Columns :
          UnknownRecorded(OA_cache', k, n)
          => \A kk \in Columns :
                (kk >= k /\ kk > OA_cache'[n][1])
                => OA_cache_construction_available(OA_cache', kk, n) = "False"
    /\ (/\ last'.op = "orthogonal_array"
        /\ last'.t = 2
        /\ last'.k # None
        /\ UnknownRecorded(OA_cache, last'.k, last'.n)
        /\ last'.k > OA_cache[last'.n][1])
       => /\ last'.out \notin {Design("OA_constructions"), Design("TD_6_12"),
                               Design("MOLS_constructions"), Design("recursive")}
          /\ last'.out = Answer("True") => Truthy(projective_plane[last'.n])

\* C28: after a resolver request with t=2 fell through the whole chain for (k,n), the
\* cache records Unknown at k, and from then on _OA_cache_construction_available(k',n)
\* is False for every k'>=k above max_true, so that later resolver requests for such
\* k' skip the tables and the recursive constructions
C28_UnknownSticks == [][UnknownSticks]_vars

\* C28 witness: a build request for k' above a recorded Unknown and above max_true
\* raised NotImplementedError although the finder of recursive constructions answers
\* for (k',n)
C28_Witness ==
    /\ last.op = "orthogonal_array"
    /\ last.t = 2
    /\ last.k # None
    /\ ~ last.existence
    /\ \E k \in Columns : k < last.k /\ UnknownRecorded(last.before, k, last.n)
    /\ last.k > last.before[last.n][1]
    /\ <<last.k, last.n>> \in find_recursive_construction
    /\ last.out = Raise("NotImplementedError")
    /\ OA_cache_construction_available(OA_cache, last.k, last.n) = "False"

\* the dictionary after caller a and then caller b have run _OA_cache_set one after the other
SetInOrder(c, a, b) ==
    OA_cache_set(OA_cache_set(c, a.k, SetSize, a.truth_value), b.k, SetSize, b.truth_value)

\* C29: when two callers have run _OA_cache_set for the same n at the same time, with
\* the read of the record and the write of the new record as separate steps, the
\* dictionary they leave is the one that one of the two sequential orders of the two
\* calls leaves: no tightening is lost
C29_NoLostTightening ==
    (callers # <<>> /\ \A p \in Callers : callers[p].pc = "done")
        => OA_cache \in {SetInOrder(last.before, callers[1], callers[2]),
                         SetInOrder(last.before, callers[2], callers[1])}

\* a definitive verdict
Definitive(out) == out \in {Answer("True"), Answer("False")}

\* the cache c has the verdict out for (k,n) on record: a decide request with t=2
\* returns out and leaves the cache as it is
Settled(c, k, n, out) == Decide(c, k, n, 2) = out /\ AfterDecide(c, k, n) = c

\* from one state to the next: a decide request with t=2 that returned a definitive
\* verdict for (k,n) leaves that verdict on record, and a definitive verdict on record
\* for any (k,n) stays on record over the step, whatever request the step is
VerdictsStay ==
    /\ (/\ last'.op = "orthogonal_array"
        /\ last'.existence
        /\ last'.t = 2
        /\ last'.k # None
        /\ Definitive(last'.out))
       => Settled(OA_cache', last'.k, last'.n, last'.out)
    /\ OA_cache' # OA_cache
       => \A n \in Sizes : \A k \in Columns :
             (Definitive(Decide(OA_cache, k, n, 2)) /\ AfterDecide(OA_cache, k, n) = OA_cache)
             => Settled(OA_cache', k, n, Decide(OA_cache, k, n, 2))

\* C30: with fixed collaborator answers, once a resolver decide request with t=2 has
\* returned True for (k,n), every later one for (k,n) returns True, and once it has
\* returned False every later one returns False, whatever resolver, TD-layer and
\* incomplete-array requests are made in between
C30_VerdictsStable == [][VerdictsStay]_vars

\* C30 witness: a decide request returned False for (k,n) where an earlier request had
\* already recorded it, after requests that recorded an Unknown for the same n and a
\* record for another n
C30_Witness ==
    /\ last.op = "orthogonal_array"
    /\ last.existence
    /\ last.t = 2
    /\ last.k # None
    /\ last.n >= 2
    /\ last.out = Answer("False")
    /\ last.before[last.n] # NoRecord
    /\ last.before[last.n][4] <= last.k
    /\ last.before[last.n][4] < last.n + 2
    /\ last.before[last.n][2] # None
    /\ \E m \in Sizes : m >= 2 /\ m # last.n /\ last.before[m] # NoRecord

\* what the caller learns from an outcome: that a design came back, whichever step of
\* the chain built it, or else the answer or the exception itself
Verdict(out) == IF out.kind = "design" THEN Design("any") ELSE out

\* C31: with fixed collaborator answers, the verdict of a resolver request for (k,n)
\* with t=2, in either mode, is the one the same request gets from the cache as it is
\* when the module is loaded, whatever resolver, TD-layer and incomplete-array requests
\* were made before it
C31_HistoryIndependent ==
    (last.op = "orthogonal_array" /\ last.t = 2 /\ last.k # None)
        => Verdict(last.out)
             = Verdict(orthogonal_array(InitialCache, last.k, last.n, 2, last.existence).out)

\* _OA_cache_get(k,n) issued right after the call of _OA_cache_set(k,n,truth_value)
\* that last records
ReadAfterSet == OA_cache_get(OA_cache, last.k, last.n)

\* C32 as stated: in every cache state, _OA_cache_get(k,n) issued right after
\* _OA_cache_set(k,n,v) returns v, for v True, Unknown or False
C32_ReadYourWrites ==
    last.op = "_OA_cache_set" => ReadAfterSet = last.value

\* C32: _OA_cache_get(k,n) issued right after _OA_cache_set(k,n,v) returns v unless a
\* stronger record covers k: it returns True whenever k is at most max_true, and
\* Unknown for v False when k lies inside the unknown band; v True is always read back
C32_ReadUnlessCovered ==
    last.op = "_OA_cache_set"
        => ReadAfterSet =
             IF last.value = "True" \/ last.k <= CacheRecord(last.before, last.n)[1]
             THEN "True"
             ELSE IF last.value = "Unknown" THEN "Unknown"
             ELSE IF /\ CacheRecord(last.before, last.n)[2] # None
                     /\ last.k >= CacheRecord(last.before, last.n)[2]
                     /\ last.k <= CacheRecord(last.before, last.n)[3]
             THEN "Unknown"
             ELSE "False"

\* C32 witness: False was set at a k above a recorded max_true and outside a recorded
\* unknown band, and is read back
C32_Witness ==
    /\ last.op = "_OA_cache_set"
    /\ last.value = "False"
    /\ last.before[last.n] # NoRecord
    /\ last.before[last.n][1] > 0
    /\ last.before[last.n][2] # None
    /\ last.k > last.before[last.n][3]
    /\ last.k < last.before[last.n][4]
    /\ ReadAfterSet = "False"

\* caches that differ from every cache the requests leave: the freshly loaded one, one
\* that records every k as existing and one that records every k as Unknown
OtherCaches ==
    {InitialCache,
     [n \in Sizes |-> <<Infinity, None, None, None>>],
     [n \in Sizes |-> <<0, 0, Infinity, n + 2>>]}

\* C33: a resolver request with t other than 2, with explicit or unspecified k and in
\* either mode, leaves the cache as it was, and its outcome is the one the same request
\* has under any other cache
C33_StrengthTwoOnly ==
    (last.op = "orthogonal_array" /\ last.t # 2)
        => /\ OA_cache = last.before
           /\ \A c \in OtherCaches :
                 /\ orthogonal_array(c, last.k, last.n, last.t, last.existence).out = last.out
                 /\ orthogonal_array(c, last.k, last.n, last.t, last.existence).cache = c

\* C33 witness: a decide request with t other than 2 returned an answer that differs
\* from the one the cache holds for (k,n)
C33_Witness ==
    /\ last.op = "orthogonal_array"
    /\ last.t # 2
    /\ last.existence
    /\ last.k # None
    /\ last.out.kind = "troolean"
    /\ OA_cache_get(last.before, last.k, last.n) # "None"
    /\ OA_cache_get(last.before, last.k, last.n) # last.out.val
    /\ last.before = OA_cache

\* the request that last records is incomplete_orthogonal_array with x >= 2 holes of
\* size 1 that fit into n, OA(k+1,n) is not known to exist, OA(k,n) is, the OA(k,n) was
\* built and holds no x pairwise disjoint blocks
ExtractionInfeasible ==
    /\ last.op = "incomplete_orthogonal_array"
    /\ Len(last.holes) >= 2
    /\ \A i \in 1 .. Len(last.holes) : last.holes[i] = 1
    /\ Len(last.holes) <= last.n
    /\ Decide(last.before, last.k + 1, last.n, 2) # Answer("True")
    /\ Decide(AfterDecide(last.before, last.k + 1, last.n), last.k, last.n, 2) = Answer("True")
    /\ BuiltRows(AfterBothDecides(last.before, last.k, last.n), last.k, last.n) # <<>>
    /\ ~ Feasible(last.before, last.k, last.n, Len(last.holes))

C35_SetsCommute ==
    last.op = "_OA_cache_set"
        => /\ OA_cache_set(OA_cache, last.k, last.n, last.value) = OA_cache
           /\ \A k2 \in SetColumns : \A v2 \in Troolean :
                 OA_cache_set(OA_cache, k2, last.n, v2)
                   = OA_cache_set(OA_cache_set(last.before, k2, last.n, v2),
                                  last.k, last.n, last.value)

\* C35 witness: a set moved a breakpoint of a record that earlier sets had written, and
\* another set with the same truth value at another k moves that breakpoint again
C35_Witness ==
    /\ last.op = "_OA_cache_set"
    /\ last.before[last.n] # NoRecord
    /\ OA_cache # last.before
    /\ \E k2 \in SetColumns :
          /\ k2 # last.k
          /\ OA_cache_set(OA_cache, k2, last.n, last.value) # OA_cache
          /\ OA_cache_set(last.before, k2, last.n, last.value) # last.before

\* the matrix M given to the call that last records, the order g of its group, and the
\* number of its columns
QdmM == last.args[1]
QdmG == last.n
QdmL == Len(last.args[1][1])

\* M is a difference matrix over the cyclic group of order g: g columns, no hole, and
\* the differences of every two rows cover the group exactly once
DifferenceMatrix(M, g) ==
    /\ Len(M[1]) = g
    /\ \A i \in 1 .. Len(M) : \A l \in 1 .. g : M[i][l] # None
    /\ \A i \in 1 .. Len(M) : \A j \in (i + 1) .. Len(M) :
          {(M[i][l] - M[j][l] + g) % g : l \in 1 .. g} = 0 .. (g - 1)

\* the number of holes of a line, and the largest number of holes of a line of M
HolesOf(line) == Cardinality({l \in 1 .. Len(line) : line[l] = None})
MostHoles(M) == CHOOSE u \in 0 .. Len(M[1]) :
                    /\ \E i \in 1 .. Len(M) : HolesOf(M[i]) = u
                    /\ \A i \in 1 .. Len(M) : HolesOf(M[i]) <= u

\* the array that a resolver build request for OA(k,u) returns in the dictionary the
\* call was made in
QdmResolverBuilt(u) ==
    orthogonal_array_rows(orthogonal_array_k(last.before, last.k, u, 2, FALSE),
                          last.k, u, 2, TRUE)

\* every hole of M is, in each of the g translates of its column, one symbol >= g that
\* no translation moves, and the rows that follow the g*L developed ones are the rows
\* of the resolver-built OA(k,u) with g added to every entry; when the resolver build
\* fails, so does the call
HolesFilled(u) ==
    IF QdmResolverBuilt(u).out.kind = "error"
    THEN last.out = QdmResolverBuilt(u).out
    ELSE /\ last.out.kind = "design"
         /\ \A i \in 1 .. Len(QdmM) : \A l \in 1 .. QdmL :
               QdmM[i][l] = None
               => /\ built[l][i] >= QdmG
                  /\ built[l][i] < QdmG + u
                  /\ \A g \in 0 .. (QdmG - 1) : built[g * QdmL + l][i] = built[l][i]
         /\ SubSeq(built, QdmG * QdmL + 1, Len(built))
              = [q \in 1 .. Len(QdmResolverBuilt(u).rows) |->
                    [i \in 1 .. last.k |-> QdmResolverBuilt(u).rows[q][i] + QdmG]]

\* the development of a hole-free difference matrix is g^2 rows that form a valid
\* OA(k,g,2) without the extra column and a valid OA(k+1,g,2) with it
DifferenceMatrixDeveloped ==
    DifferenceMatrix(QdmM, QdmG)
        => /\ last.out.kind = "design"
           /\ Len(built) = QdmG * QdmG
           /\ is_orthogonal_array(built, last.k, QdmG, 2)

\* C36 as stated: whenever M has holes, an OA over the hole symbols is appended
C36_AnyHoles ==
    last.op = "OA_from_quasi_difference_matrix"
        => /\ DifferenceMatrixDeveloped
           /\ MostHoles(QdmM) > 0 => HolesFilled(MostHoles(QdmM))

\* C36: OA_from_quasi_difference_matrix develops a hole-free difference matrix over the
\* cyclic group of order g into the g^2 rows of a valid OA(k,g,2), and of a valid
\* OA(k+1,g,2) with the extra column; when every line of M has the same number u >= 1
\* of holes, each hole becomes a symbol >= g that every translation leaves fixed, and
\* the rows of the resolver-built OA over the u hole symbols, shifted by g, are appended
C36_Developed ==
    last.op = "OA_from_quasi_difference_matrix"
        => /\ DifferenceMatrixDeveloped
           /\ (MostHoles(QdmM) > 0 /\ \A i \in 1 .. Len(QdmM) : HolesOf(QdmM[i]) = MostHoles(QdmM))
              => HolesFilled(MostHoles(QdmM))

\* C36 witness: a difference matrix with three rows over the cyclic group of order 3
\* was developed with the extra column into the nine rows of an OA(4,3)
C36_Witness ==
    /\ last.op = "OA_from_quasi_difference_matrix"
    /\ QdmG = 3
    /\ Len(QdmM) = 3
    /\ DifferenceMatrix(QdmM, 3)
    /\ last.args[2]
    /\ Len(built) = 9
    /\ is_orthogonal_array(built, 4, 3, 2)

====
